---- MODULE Spec2Model ----
(***************************************************************************)
(* Conjunction types: an immutable map from component type identifier to   *)
(* one payload (the Value, class Conjunction) and the type-level handle    *)
(* over a Type Set (the descriptor, metaclass ConjunctionMeta).            *)
(* Source: src/conjunction_types/_core.py                                  *)
(***************************************************************************)
EXTENDS Integers, Sequences, FiniteSets, TLC

VARIABLES heap, held, last, minted, ndjson, objects, cache, file, threads

\* The descriptor cache with the class objects in memory, the NDJSON file on
\* disk, and the callers running mint concurrently.
rest == <<cache, file, threads>>

\* The process-wide tables of the minting and NDJSON modules and the payload
\* objects alive in memory; the Value and descriptor operations leave them alone.
registries == <<minted, ndjson, objects, cache, file, threads>>

vars == <<heap, held, last, minted, ndjson, objects, cache, file, threads>>

\* ------------------------------------------------------------------ bounds
\* Value objects the program keeps a reference to.
MaxObjs == 2
\* Positional arguments of one constructor call.
MaxArgs == 2
\* Descriptors the program keeps a reference to, besides the base class.
MaxDescs == 2
\* Names the program mints identities under.
MaxMints == 2
\* Addresses at which payload objects can live.
MaxAddr == 3

\* ------------------------------------------------------ identifiers, payloads
\* Component type identifiers: three builtin classes.
Ids == {"int", "bool", "str"}

\* bool is a subclass of int: True == 1 and hash(True) == hash(1).
NumericIds == {"int", "bool"}

\* A payload is a Python object: its class and its content.
Payload(ty, v) == [ty |-> ty, v |-> v]

Int1 == Payload("int", 1)
Int2 == Payload("int", 2)
BoolTrue == Payload("bool", 1)
StrA == Payload("str", 1)

\* Payloads passed positionally, and the keyword pairs passed to a constructor.
PlainInputs == {Int1, Int2, StrA}
KwInputs == {<<>>, <<[name |-> "int", p |-> BoolTrue]>>, <<[name |-> "nosuch", p |-> Int1]>>}

\* type(value)
TypeOf(p) == p.ty

\* value1 == value2 on payloads (the negation of the != of Conjunction.__eq__)
PyEq(p, q) ==
    IF p.ty \in NumericIds /\ q.ty \in NumericIds
    THEN p.v = q.v
    ELSE p.ty = q.ty /\ p.v = q.v

\* hash(value): numbers hash to their value, so equal numbers of different
\* classes hash alike; a string hashes to some other number.
PyHash(p) == IF p.ty \in NumericIds THEN p.v ELSE 100 + p.v

\* hash(typ) of a class: a number of its own per class.
TypeHash(t) == CASE t = "int" -> 11 [] t = "bool" -> 13 [] t = "str" -> 17 [] OTHER -> 19

\* hash((typ, h)) of the pair stored per entry.
PairHash(t, h) == 31 * TypeHash(t) + h

\* hash(frozenset(...)): an order-independent combination of the members' hashes.
RECURSIVE SumOver(_, _)
SumOver(S, f) ==
    IF S = {} THEN 0
    ELSE LET x == CHOOSE y \in S : TRUE
         IN f[x] + SumOver(S \ {x}, f)

\* ------------------------------------------------------------------ dicts
EmptyMap == [k \in {} |-> Int1]

\* data[k] = v
Put(d, k, v) == [x \in (DOMAIN d) \cup {k} |-> IF x = k THEN v ELSE d[x]]

\* ------------------------------------------------------------ descriptors
\* A descriptor is a class created by ConjunctionMeta; _types is its Type Set.
\* The cache keeps one class per Type Set while it is referenced, so a class
\* is identified by its _types; the base class Conjunction has none.
Desc(S) == [types |-> S]
Base == Desc({})

\* ------------------------------------------------------- type expressions
\* What can be written inside [...] or after `in`, `/`: a class or generic
\* alias ("id"), the Ellipsis object, its class type(...), a descriptor, a
\* union of those, a tuple, or some other object that is no type.
Leaf(kind, t, S) == [kind |-> kind, t |-> t, types |-> S, args |-> <<>>]
IdLeaf(t) == Leaf("id", t, {})
EllipsisObj == Leaf("ellipsis", "", {})
EllipsisType == Leaf("ellipsis_type", "", {})
DescLeaf(S) == Leaf("desc", "", S)
OtherObj == Leaf("other", "", {})
UnionOf(args) == [kind |-> "union", t |-> "", types |-> {}, args |-> args]
TupleOf(args) == [kind |-> "tuple", t |-> "", types |-> {}, args |-> args]
NoExpr == Leaf("none", "", {})

IsEllipsis(tp) == tp.kind \in {"ellipsis", "ellipsis_type"}

Ok(S) == [err |-> FALSE, types |-> S]
Fail == [err |-> TRUE, types |-> {}]

\* A normalizer that takes a descriptor inside a union for nothing instead
\* of unwrapping it.
NormalizeNoFlatten(tp) ==
    IF tp.kind = "desc" THEN Ok(tp.types)
    ELSE IF tp.kind = "union" THEN
        IF \E i \in 1..Len(tp.args) : tp.args[i].kind = "other" THEN Fail
        ELSE Ok({tp.args[i].t : i \in {j \in 1..Len(tp.args) : tp.args[j].kind = "id"}})
    ELSE IF IsEllipsis(tp) THEN Ok({})
    ELSE IF tp.kind = "id" THEN Ok({tp.t})
    ELSE Fail

\* _normalize_union(tp): the Type Set of an expression, or TypeError.
RECURSIVE _normalize_union(_)
_normalize_union(tp) ==
    IF tp.kind = "desc" THEN Ok(tp.types)
    ELSE IF tp.kind = "union" THEN
        LET part(i) == IF IsEllipsis(tp.args[i]) THEN Ok({})
                       ELSE _normalize_union(tp.args[i])
            idx == 1..Len(tp.args)
        IN IF \E i \in idx : part(i).err THEN Fail
           ELSE Ok(UNION {part(i).types : i \in idx})
    ELSE IF IsEllipsis(tp) THEN Ok({})
    ELSE IF tp.kind = "id" THEN Ok({tp.t})
    ELSE Fail

\* The tuple branch shared by the two __getitem__: each member is normalized.
NormalizeItem(item) ==
    IF item.kind = "tuple" THEN
        LET idx == 1..Len(item.args)
        IN IF \E i \in idx : _normalize_union(item.args[i]).err THEN Fail
           ELSE Ok(UNION {_normalize_union(item.args[i]).types : i \in idx})
    ELSE _normalize_union(item)

\* ------------------------------------------------- descriptor operations
\* The class object a leaf stands for, as a member of a Type Set.
ClassName(tp) == IF tp.kind = "ellipsis_type" THEN "ellipsis" ELSE tp.t

\* ConjunctionMeta.__getitem__(cls, item): cls itself for an empty Type
\* Set, else the cached class of that Type Set or a new one.
MetaGetItem(cls, item) ==
    LET n == NormalizeItem(item)
    IN IF n.err THEN [err |-> "TypeError", ok |-> FALSE, d |-> Base]
       ELSE IF n.types = {} THEN [err |-> "none", ok |-> TRUE, d |-> cls]
       ELSE [err |-> "none", ok |-> TRUE, d |-> Desc(n.types)]

\* ConjunctionMeta.__eq__(cls, other), other a descriptor
MetaEq(cls, other) == cls.types = other.types

\* ConjunctionMeta.__hash__(cls): hash(cls._types)
MetaHash(cls) == SumOver(cls.types, [t \in cls.types |-> TypeHash(t)])

\* A containment test that asks for the same Type Set.
MetaContainsExact(cls, item) ==
    IF item.kind = "desc" THEN [err |-> "none", b |-> item.types = cls.types]
    ELSE LET n == _normalize_union(item)
         IN IF n.err THEN [err |-> "TypeError", b |-> FALSE]
            ELSE [err |-> "none", b |-> n.types = cls.types]

\* ConjunctionMeta.__contains__(cls, item): `item in cls`
MetaContains(cls, item) ==
    IF item.kind = "desc" THEN [err |-> "none", b |-> item.types \subseteq cls.types]
    ELSE IF item.kind \in {"id", "ellipsis_type"}
         THEN [err |-> "none", b |-> ClassName(item) \in cls.types]
    ELSE LET n == _normalize_union(item)
         IN IF n.err THEN [err |-> "TypeError", b |-> FALSE]
            ELSE [err |-> "none", b |-> n.types \subseteq cls.types]

\* ConjunctionMeta.__and__(cls, other): the class of the two Type Sets'
\* union; other is a descriptor or a class, anything else raises.
MetaAnd(cls, other) ==
    IF other.kind = "desc"
    THEN [err |-> "none", ok |-> TRUE, d |-> Desc(cls.types \cup other.types)]
    ELSE IF other.kind \in {"id", "ellipsis_type"}
         THEN [err |-> "none", ok |-> TRUE, d |-> Desc(cls.types \cup {ClassName(other)})]
    ELSE [err |-> "TypeError", ok |-> FALSE, d |-> Base]

\* ConjunctionMeta.__rand__(cls, other): other & cls
MetaRAnd(cls, other) == MetaAnd(cls, other)

\* ConjunctionMeta.__subclasscheck__(cls, subclass): issubclass(subclass, cls)
MetaSubclassCheck(cls, subclass) ==
    IF subclass.kind # "desc" THEN FALSE
    ELSE subclass.types \subseteq cls.types

\* ------------------------------------------------------------------ Values
\* A Value object: its class, the slots _data and _hash. _hash is <<>> for
\* None and <<h>> once cached. has_data is hasattr(self, '_data'). map is
\* the identity of the dict bound to _data: 0 for a dict the running call
\* has created, and the number the dict got when the program stored the Value.
NoHash == <<>>
New(cls) == [cls |-> cls, has_data |-> FALSE, data |-> EmptyMap, hash |-> NoHash, map |-> 0]
Built(data) == [New(Base) EXCEPT !.has_data = TRUE, !.data = data]

Keys(v) == DOMAIN v.data

\* A constructor argument: a plain payload or a Value.
PlainArg(p) == [conj |-> FALSE, val |-> p]
ConjArg(v) == [conj |-> TRUE, val |-> v]

\* The merge of a nested Value's entries, `for typ, val in value._data.items()`.
MergeItems(data, other) ==
    [x \in (DOMAIN data) \cup (DOMAIN other) |->
        IF x \in DOMAIN other THEN other[x] ELSE data[x]]

\* A loop over *values that keeps the first payload seen for an identifier.
RECURSIVE ProcessValuesFirstWins(_, _)
ProcessValuesFirstWins(data, values) ==
    IF values = <<>> THEN data
    ELSE LET value == Head(values)
             next == IF value.conj
                     THEN MergeItems(value.val.data, data)
                     ELSE IF TypeOf(value.val) \in DOMAIN data THEN data
                          ELSE Put(data, TypeOf(value.val), value.val)
         IN ProcessValuesFirstWins(next, Tail(values))

\* The loop over *values of Conjunction.__init__.
RECURSIVE ProcessValues(_, _)
ProcessValues(data, values) ==
    IF values = <<>> THEN data
    ELSE LET value == Head(values)
             next == IF value.conj
                     THEN MergeItems(data, value.val.data)
                     ELSE Put(data, TypeOf(value.val), value.val)
         IN ProcessValues(next, Tail(values))

\* eval(typ) of a keyword name: the class of that name, or an exception.
EvalName(name) == IF name \in Ids THEN [err |-> FALSE, typ |-> name]
                  ELSE [err |-> TRUE, typ |-> ""]

\* The loop over **kwargs of Conjunction.__init__.
RECURSIVE ProcessKwargs(_, _)
ProcessKwargs(data, kwargs) ==
    IF kwargs = <<>> THEN [err |-> FALSE, data |-> data]
    ELSE LET kw == Head(kwargs)
             ev == EvalName(kw.name)
         IN IF ev.err THEN [err |-> TRUE, data |-> data]
            ELSE ProcessKwargs(Put(data, ev.typ, kw.p), Tail(kwargs))

\* Conjunction.__init__(self, *values, **kwargs)
ConjunctionInit(self, values, kwargs) ==
    IF self.has_data THEN [err |-> "TypeError", obj |-> self]
    ELSE LET r == ProcessKwargs(ProcessValues(EmptyMap, values), kwargs)
         IN IF r.err THEN [err |-> "TypeError", obj |-> self]
            ELSE [err |-> "none",
                  obj |-> [self EXCEPT !.has_data = TRUE, !.data = r.data, !.hash = NoHash]]

\* A merge in which the left operand's entries win.
ConjunctionAndLeftWins(self, other) ==
    LET o == IF other.conj THEN other.val
             ELSE ConjunctionInit(New(Base), <<other>>, <<>>).obj
    IN Built(MergeItems(o.data, self.data))

\* Conjunction.__and__(self, other): other is wrapped when it is no Value.
ConjunctionAnd(self, other) ==
    LET o == IF other.conj THEN other.val
             ELSE ConjunctionInit(New(Base), <<other>>, <<>>).obj
    IN Built(MergeItems(self.data, o.data))

\* A slice that skips the missing identifiers instead of raising.
ConjunctionGetItemLenient(self, types) ==
    LET n == NormalizeItem(types)
    IN IF n.err THEN [err |-> "TypeError", obj |-> New(Base)]
       ELSE [err |-> "none", obj |-> Built([t \in n.types \cap Keys(self) |-> self.data[t]])]

\* Conjunction.__getitem__(self, types): the slice, KeyError when an
\* identifier is missing, TypeError when the expression is no type.
ConjunctionGetItem(self, types) ==
    LET n == NormalizeItem(types)
    IN IF n.err THEN [err |-> "TypeError", obj |-> New(Base)]
       ELSE IF n.types \ Keys(self) # {} THEN [err |-> "KeyError", obj |-> New(Base)]
       ELSE [err |-> "none", obj |-> Built([t \in n.types |-> self.data[t]])]

\* An extraction that answers None-like instead of raising.
ConjunctionToNoRaise(self, typ) ==
    IF typ \notin Keys(self) THEN [err |-> "none", ret |-> Int1]
    ELSE [err |-> "none", ret |-> self.data[typ]]

\* Conjunction.to(self, typ)
ConjunctionTo(self, typ) ==
    IF typ \notin Keys(self) THEN [err |-> "KeyError", ret |-> Int1]
    ELSE [err |-> "none", ret |-> self.data[typ]]

\* A difference that raises KeyError when an identifier to remove is absent.
ConjunctionTruedivStrict(self, types) ==
    LET n == _normalize_union(types)
    IN IF n.err THEN [err |-> "TypeError", obj |-> New(Base)]
       ELSE IF n.types \ Keys(self) # {} THEN [err |-> "KeyError", obj |-> New(Base)]
       ELSE [err |-> "none",
             obj |-> Built([t \in Keys(self) \ n.types |-> self.data[t]])]

\* A difference that hands back self when there is nothing to remove.
ConjunctionTruedivReuse(self, types) ==
    LET n == _normalize_union(types)
    IN IF n.err THEN [err |-> "TypeError", obj |-> New(Base)]
       ELSE IF n.types \cap Keys(self) = {} THEN [err |-> "none", obj |-> self]
       ELSE [err |-> "none",
             obj |-> Built([t \in Keys(self) \ n.types |-> self.data[t]])]

\* Conjunction.__truediv__(self, types)
ConjunctionTruediv(self, types) ==
    LET n == _normalize_union(types)
    IN IF n.err THEN [err |-> "TypeError", obj |-> New(Base)]
       ELSE [err |-> "none",
             obj |-> Built([t \in Keys(self) \ n.types |-> self.data[t]])]

\* An equality that compares the key sets only.
ConjunctionEqKeysOnly(self, other) == Keys(self) = Keys(other)

\* Conjunction.__eq__(self, other), other a Value: same keys, then no
\* pair of payloads that differs.
ConjunctionEq(self, other) ==
    IF Keys(self) # Keys(other) THEN FALSE
    ELSE \A typ \in Keys(self) : PyEq(self.data[typ], other.data[typ])

\* Conjunction.__hash__(self): the cached number, or the hash of the
\* frozenset of (typ, hash(value)) pairs, which is then cached. The
\* payloads modelled are hashable, so hash(value) never raises.
ConjunctionHash(self) ==
    IF self.hash # NoHash THEN [h |-> self.hash[1], obj |-> self]
    ELSE LET items == {<<typ, PyHash(self.data[typ])>> : typ \in Keys(self)}
             h == SumOver(items, [x \in items |-> PairHash(x[1], x[2])])
         IN [h |-> h, obj |-> [self EXCEPT !.hash = <<h>>]]

\* isinstance(instance, cls) for a descriptor cls: the interpreter answers
\* True when type(instance) is cls, and asks cls.__instancecheck__ otherwise.
\* __instancecheck__: False for an object that is no Value, True for the
\* base class, else the instance's keys against cls._types.
InstanceCheck(cls, instance) ==
    IF ~instance.conj THEN FALSE
    ELSE IF cls.types = {} THEN TRUE
    ELSE Keys(instance.val) = cls.types

IsInstance(instance, cls) ==
    IF instance.conj /\ instance.val.cls = cls THEN TRUE
    ELSE InstanceCheck(cls, instance)

\* ------------------------------------------------------------------ state
\* heap: the Value objects the program holds, in the order it stored them.
\* held: the descriptors the program holds; held[1] is the base class.
\* last: the most recent call: its inputs, its exception and what it returned.
\* The descriptor cache: _cache maps a Type Set to the class cached for it
\* (map), alive holds the Type Set of every class object in memory by its
\* identity, refs are the descriptors the program keeps in variables. The
\* base class Conjunction has identity 0 and is always there.
NoCache == [map |-> EmptyMap, alive |-> EmptyMap, refs |-> <<>>]

\* The file: whether the path exists and the lines it holds, each a JSON
\* record or a blank line.
NoFile == [exists |-> FALSE, lines |-> <<>>, log |-> <<>>, clean |-> TRUE]

\* The callers of mint that run concurrently, each at a position in mint()
\* with its arguments and locals.
NoThreads == <<>>

\* A JSON record of the codec: the list under "__conjunction_types__" and
\* the payloads under their keys.
NoRecord == [types |-> <<>>, data |-> EmptyMap]

NoTok == [conj |-> FALSE, ref |-> 0, p |-> Int1]
PlainTok(p) == [conj |-> FALSE, ref |-> 0, p |-> p]
RefTok(i) == [conj |-> TRUE, ref |-> i, p |-> Int1]

\* The argument a token stands for.
Resolve(tok, h) == IF tok.conj THEN ConjArg(h[tok.ref]) ELSE PlainArg(tok.p)
ResolveAll(toks, h) == [i \in 1..Len(toks) |-> Resolve(toks[i], h)]

NoLast == [op |-> "idle", self |-> 0, tok |-> NoTok, values |-> <<>>, kwargs |-> <<>>,
           expr |-> NoExpr, key |-> "", cls |-> Base, err |-> "none",
           val |-> New(Base), ret |-> Int1, rb |-> FALSE, rh |-> 0,
           dok |-> FALSE, dval |-> Base, vals |-> EmptyMap,
           fn |-> "", typ |-> "", addr |-> 0, ser |-> "", deser |-> "",
           rec |-> NoRecord, out |-> New(Base), order |-> <<>>, ran |-> {},
           got |-> <<>>, count |-> 0]

\* No call is pending: the previous result was stored or dropped.
Idle == last.op = "idle"

Objs == 1..Len(heap)
Tokens == {PlainTok(p) : p \in PlainInputs} \cup {RefTok(i) : i \in Objs}
TokSeqs == UNION {[1..n -> Tokens] : n \in 0..MaxArgs}

\* Expressions used on Values: identifiers, the wildcard, unions in both
\* orders, a union holding a descriptor, a tuple, and an object that is no type.
IdPairs == {<<a, b>> \in Ids \X Ids : a # b}
ValueExprs ==
    {IdLeaf(t) : t \in Ids} \cup {EllipsisObj, OtherObj}
    \cup {UnionOf(<<IdLeaf(q[1]), IdLeaf(q[2])>>) : q \in IdPairs}
    \cup {UnionOf(<<DescLeaf({"int", "str"}), IdLeaf("bool")>>),
          UnionOf(<<IdLeaf("int"), EllipsisType>>),
          TupleOf(<<IdLeaf("int"), IdLeaf("str")>>),
          DescLeaf({"int", "str"})}

\* The tables as the modules define them at import: all empty. The registry
\* is the TypeRegistry the serializer works with.
NoMinted == [names |-> EmptyMap, constructors |-> EmptyMap, values |-> EmptyMap]
NoRegistry == [serializers |-> <<>>, deserializers |-> EmptyMap,
               type_aliases |-> EmptyMap, safe_globals |-> EmptyMap]
NoNdjson == [serializers |-> EmptyMap, deserializers |-> EmptyMap, registry |-> NoRegistry]

Init ==
    /\ heap = <<>>
    /\ held = <<Base>>
    /\ last = NoLast
    /\ minted = NoMinted
    /\ ndjson = NoNdjson
    /\ objects = EmptyMap
    /\ cache = NoCache
    /\ file = NoFile
    /\ threads = NoThreads

\* cls(*values, **kwargs): type.__call__ allocates an instance of cls and
\* runs Conjunction.__init__ on it; an exception leaves no object behind.
ConstructWith(classes, argseqs, kws) ==
    /\ Idle
    /\ \E cls \in classes, values \in argseqs, kwargs \in kws :
        LET r == ConjunctionInit(New(cls), ResolveAll(values, heap), kwargs)
        IN /\ last' = [NoLast EXCEPT !.op = "init", !.cls = cls, !.values = values,
                                     !.kwargs = kwargs, !.err = r.err,
                                     !.val = IF r.err = "none" THEN r.obj ELSE New(Base)]
           /\ UNCHANGED <<heap, held, registries>>

\* Conjunction(*values, **kwargs), plain payloads and Values mixed
Construct == ConstructWith({Base}, TokSeqs, KwInputs)

\* x = <the Value just returned>: the program stores a reference to it.
Keep ==
    /\ last.val.has_data
    /\ Len(heap) < MaxObjs
    /\ heap' = Append(heap, IF last.val.map = 0
                             THEN [last.val EXCEPT !.map = Len(heap) + 1]
                             ELSE last.val)
    /\ last' = NoLast
    /\ UNCHANGED <<held, registries>>

\* The program drops what the call returned or raised and goes on.
Discard ==
    /\ ~Idle
    /\ last' = NoLast
    /\ UNCHANGED <<heap, held, registries>>

\* heap[i] & other
AndOp ==
    /\ Idle
    /\ \E i \in Objs, tok \in Tokens :
        /\ last' = [NoLast EXCEPT !.op = "and", !.self = i, !.tok = tok,
                                  !.val = ConjunctionAnd(heap[i], Resolve(tok, heap))]
        /\ UNCHANGED <<heap, held, registries>>

\* heap[i][expr]
GetItemOp ==
    /\ Idle
    /\ \E i \in Objs, expr \in ValueExprs :
        LET r == ConjunctionGetItem(heap[i], expr)
        IN /\ last' = [NoLast EXCEPT !.op = "getitem", !.self = i, !.expr = expr,
                                     !.err = r.err, !.val = r.obj]
           /\ UNCHANGED <<heap, held, registries>>

\* heap[i].to(typ)
ToOp ==
    /\ Idle
    /\ \E i \in Objs, typ \in Ids :
        LET r == ConjunctionTo(heap[i], typ)
        IN /\ last' = [NoLast EXCEPT !.op = "to", !.self = i, !.key = typ,
                                     !.err = r.err, !.ret = r.ret]
           /\ UNCHANGED <<heap, held, registries>>

\* heap[i] / expr
TrueDivOp ==
    /\ Idle
    /\ \E i \in Objs, expr \in ValueExprs :
        LET r == ConjunctionTruediv(heap[i], expr)
        IN /\ last' = [NoLast EXCEPT !.op = "truediv", !.self = i, !.expr = expr,
                                     !.err = r.err, !.val = r.obj]
           /\ UNCHANGED <<heap, held, registries>>

\* hash(heap[i]): the number is cached in the object's _hash slot.
HashOp ==
    /\ Idle
    /\ \E i \in Objs :
        LET r == ConjunctionHash(heap[i])
        IN /\ heap' = [heap EXCEPT ![i] = r.obj]
           /\ last' = [NoLast EXCEPT !.op = "hash", !.self = i, !.rh = r.h]
           /\ UNCHANGED <<held, registries>>

\* heap[i] == heap[j]
EqOp ==
    /\ Idle
    /\ \E i \in Objs, j \in Objs :
        /\ last' = [NoLast EXCEPT !.op = "eq", !.self = i, !.tok = RefTok(j),
                                  !.rb = ConjunctionEq(heap[i], heap[j])]
        /\ UNCHANGED <<heap, held, registries>>

\* Conjunction(*values, **kwargs) with plain payloads
PlainSeqs == UNION {[1..n -> {PlainTok(p) : p \in PlainInputs}] : n \in 0..MaxArgs}
ConstructPlain == ConstructWith({Base}, PlainSeqs, KwInputs)

\* D(*values) through a descriptor D, the base class included
CallDescs == {Base, Desc({"int", "str"})}
ConstructVia == ConstructWith(CallDescs, PlainSeqs, {<<>>})

\* isinstance(x, D) for x a held Value or a plain payload
AllDescs == {Desc(S) : S \in SUBSET Ids}
Subjects == {RefTok(i) : i \in Objs} \cup {PlainTok(Int1)}
IsInstanceOp ==
    /\ Idle
    /\ \E x \in Subjects, D \in AllDescs :
        /\ last' = [NoLast EXCEPT !.op = "isinstance", !.tok = x, !.cls = D,
                                  !.rb = IsInstance(Resolve(x, heap), D)]
        /\ UNCHANGED <<heap, held, registries>>

\* heap[i].name = value: Conjunction.__setattr__ raises. last.val keeps the
\* object as it was before the attempt.
SetAttrOp ==
    /\ Idle
    /\ \E i \in Objs :
        /\ last' = [NoLast EXCEPT !.op = "setattr", !.self = i, !.err = "TypeError",
                                  !.val = heap[i]]
        /\ UNCHANGED <<heap, held, registries>>

\* del heap[i].name: Conjunction.__delattr__ raises.
DelAttrOp ==
    /\ Idle
    /\ \E i \in Objs :
        /\ last' = [NoLast EXCEPT !.op = "delattr", !.self = i, !.err = "TypeError",
                                  !.val = heap[i]]
        /\ UNCHANGED <<heap, held, registries>>

\* heap[i].__init__(*values): construction invoked again on a built object.
ReInitOp ==
    /\ Idle
    /\ \E i \in Objs, values \in {<<>>, <<PlainTok(Int2)>>} :
        LET r == ConjunctionInit(heap[i], ResolveAll(values, heap), <<>>)
        IN /\ heap' = [heap EXCEPT ![i] = r.obj]
           /\ last' = [NoLast EXCEPT !.op = "reinit", !.self = i, !.values = values,
                                     !.err = r.err, !.val = heap[i]]
           /\ UNCHANGED <<held, registries>>

\* heap[i]._data[key] = p: _data is the dict built by __init__, and a dict
\* accepts the assignment.
WriteInputs == {<<"bool", BoolTrue>>, <<"int", Int2>>}
DataWriteOp ==
    /\ Idle
    /\ \E i \in Objs, w \in WriteInputs :
        /\ heap' = [k \in Objs |->
                       IF heap[k].map = heap[i].map
                       THEN [heap[k] EXCEPT !.data = Put(heap[i].data, w[1], w[2])]
                       ELSE heap[k]]
        /\ last' = [NoLast EXCEPT !.op = "datawrite", !.self = i, !.key = w[1],
                                  !.ret = w[2], !.err = "none", !.val = heap[i]]
        /\ UNCHANGED <<held, registries>>

\* ---------------------------------------------------- descriptor actions
Held == 1..Len(held)

\* What the program can write in a type expression: the classes, the
\* wildcard in both spellings, the descriptors it holds, an object that is
\* no type; unions of two of them in both orders, unions of the three
\* classes in every order, and a tuple.
UnionLeaves == {IdLeaf(t) : t \in Ids} \cup {EllipsisType}
               \cup {DescLeaf(held[j].types) : j \in Held}
IdTriples == {q \in Ids \X Ids \X Ids : q[1] # q[2] /\ q[1] # q[3] /\ q[2] # q[3]}
DescExprs ==
    UnionLeaves \cup {EllipsisObj, OtherObj}
    \cup {UnionOf(<<q[1], q[2]>>) : q \in {r \in UnionLeaves \X UnionLeaves : r[1] # r[2]}}
    \cup {UnionOf(<<IdLeaf(q[1]), IdLeaf(q[2]), IdLeaf(q[3])>>) : q \in IdTriples}
    \cup {UnionOf(<<IdLeaf("int"), OtherObj>>),
          TupleOf(<<IdLeaf("int"), IdLeaf("str")>>),
          TupleOf(<<UnionOf(<<IdLeaf("bool"), IdLeaf("int")>>), DescLeaf({"str"})>>)}

\* The right operands of the descriptor-level &.
AndOperands == {IdLeaf(t) : t \in Ids} \cup {DescLeaf(held[j].types) : j \in Held}
               \cup {EllipsisObj, UnionOf(<<IdLeaf("int"), IdLeaf("str")>>)}

\* held[i][item]
DescGetItemOp ==
    /\ Idle
    /\ \E i \in Held, item \in DescExprs :
        LET r == MetaGetItem(held[i], item)
        IN /\ last' = [NoLast EXCEPT !.op = "dgetitem", !.self = i, !.expr = item,
                                     !.err = r.err, !.dok = r.ok, !.dval = r.d]
           /\ UNCHANGED <<heap, held, registries>>

\* held[i] & other
DescAndOp ==
    /\ Idle
    /\ \E i \in Held, other \in AndOperands :
        LET r == MetaAnd(held[i], other)
        IN /\ last' = [NoLast EXCEPT !.op = "dand", !.self = i, !.expr = other,
                                     !.err = r.err, !.dok = r.ok, !.dval = r.d]
           /\ UNCHANGED <<heap, held, registries>>

\* other & held[i], other a class
DescRAndOp ==
    /\ Idle
    /\ \E i \in Held, t \in Ids :
        LET r == MetaRAnd(held[i], IdLeaf(t))
        IN /\ last' = [NoLast EXCEPT !.op = "drand", !.self = i, !.expr = IdLeaf(t),
                                     !.err = r.err, !.dok = r.ok, !.dval = r.d]
           /\ UNCHANGED <<heap, held, registries>>

\* D = <the descriptor just returned>
KeepDesc ==
    /\ last.dok
    /\ Len(held) < 1 + MaxDescs
    /\ held' = Append(held, last.dval)
    /\ last' = NoLast
    /\ UNCHANGED <<heap, registries>>

\* held[i] == held[j], with hash(held[i]) == hash(held[j]) in rh (1 or 0)
DescEqOp ==
    /\ Idle
    /\ \E i \in Held, j \in Held :
        /\ last' = [NoLast EXCEPT !.op = "deq", !.self = i, !.tok = RefTok(j),
                                  !.rb = MetaEq(held[i], held[j]),
                                  !.rh = IF MetaHash(held[i]) = MetaHash(held[j]) THEN 1 ELSE 0]
        /\ UNCHANGED <<heap, held, registries>>

\* item in held[i]
DescContainsOp ==
    /\ Idle
    /\ \E i \in Held, item \in DescExprs :
        LET r == MetaContains(held[i], item)
        IN /\ last' = [NoLast EXCEPT !.op = "dcontains", !.self = i, !.expr = item,
                                     !.err = r.err, !.rb = r.b]
           /\ UNCHANGED <<heap, held, registries>>

\* issubclass(x, held[i]) for x a held descriptor or a plain class
SubclassOp ==
    /\ Idle
    /\ \E i \in Held, x \in {DescLeaf(held[j].types) : j \in Held} \cup {IdLeaf("int")} :
        /\ last' = [NoLast EXCEPT !.op = "issubclass", !.self = i, !.expr = x,
                                  !.rb = MetaSubclassCheck(held[i], x)]
        /\ UNCHANGED <<heap, held, registries>>

Next == Construct \/ Keep \/ Discard \/ AndOp \/ GetItemOp \/ ToOp \/ TrueDivOp

Spec == Init /\ [][Next]_vars

\* Equality and hashing of Values built by the constructor.
NextHash == ConstructPlain \/ Keep \/ Discard \/ HashOp \/ EqOp
SpecHash == Init /\ [][NextHash]_vars

\* Values as objects: their class, the instance test, attempts to alter them.
NextInst == ConstructVia \/ Keep \/ Discard \/ IsInstanceOp
            \/ SetAttrOp \/ DelAttrOp \/ ReInitOp \/ DataWriteOp
SpecInst == Init /\ [][NextInst]_vars

\* The type-level algebra of descriptors.
NextDesc == DescGetItemOp \/ DescAndOp \/ DescRAndOp \/ KeepDesc \/ Discard
            \/ DescEqOp \/ DescContainsOp \/ SubclassOp
SpecDesc == Init /\ [][NextDesc]_vars

\* ------------------------------------------------------------------------
\* Notions the properties are stated with.

\* The Value Conjunction(p) of one plain payload.
Single(p) == ConjunctionInit(New(Base), <<PlainArg(p)>>, <<>>).obj

\* The identifiers an expression mentions, read off its leaves.
LeafTypes(l) == IF l.kind = "id" THEN {l.t}
                ELSE IF l.kind = "desc" THEN l.types ELSE {}
RECURSIVE FlatTypes(_)
FlatTypes(e) ==
    IF e.kind \in {"union", "tuple"}
    THEN UNION {FlatTypes(e.args[i]) : i \in 1..Len(e.args)}
    ELSE LeafTypes(e)

\* Every leaf of the expression is a type, a descriptor or the wildcard.
RECURSIVE WellFormed(_)
WellFormed(e) ==
    IF e.kind \in {"union", "tuple"}
    THEN \A i \in 1..Len(e.args) : WellFormed(e.args[i])
    ELSE e.kind \in {"id", "desc", "ellipsis", "ellipsis_type"}

\* The expressions the normalizer accepts: a tuple is none of them.
Normalizable(e) == WellFormed(e) /\ e.kind # "tuple"

\* ------------------------------------------------------------------------
\* C1: after A & B returned AB, for every third Value C: (A & B) & C,
\* A & (B & C) and Conjunction(A, B, C) are equal Values, whose keys are the
\* union of the three key sets and whose payload for each identifier is that
\* of the right-most of A, B, C holding it.
ThirdOperands == {heap[k] : k \in Objs} \cup {Single(p) : p \in PlainInputs}

RightMost(A, B, C, t) ==
    IF t \in Keys(C) THEN C.data[t]
    ELSE IF t \in Keys(B) THEN B.data[t] ELSE A.data[t]

C1_Associative ==
    (last.op = "and" /\ last.tok.conj) =>
        LET A == heap[last.self]
            B == heap[last.tok.ref]
            AB == last.val
        IN \A C \in ThirdOperands :
            LET left == ConjunctionAnd(AB, ConjArg(C))
                right == ConjunctionAnd(A, ConjArg(ConjunctionAnd(B, ConjArg(C))))
                flat == ConjunctionInit(New(Base), <<ConjArg(A), ConjArg(B), ConjArg(C)>>, <<>>).obj
            IN /\ ConjunctionEq(left, right) /\ ConjunctionEq(right, left)
               /\ ConjunctionEq(left, flat) /\ ConjunctionEq(flat, right)
               /\ Keys(left) = Keys(A) \cup Keys(B) \cup Keys(C)
               /\ \A t \in Keys(left) : left.data[t] = RightMost(A, B, C, t)

\* A & B was computed where A, B and some C hold one identifier with three
\* different payloads, and B holds an identifier A lacks.
C1_Witness ==
    /\ last.op = "and" /\ last.tok.conj
    /\ LET A == heap[last.self]
           B == heap[last.tok.ref]
       IN /\ Keys(B) \ Keys(A) # {}
          /\ \E C \in ThirdOperands : \E t \in Keys(A) \cap Keys(B) \cap Keys(C) :
                /\ A.data[t] # B.data[t]
                /\ B.data[t] # C.data[t]
                /\ A.data[t] # C.data[t]

\* ------------------------------------------------------------------------
\* C2: a constructor call that returns has stored, for every identifier
\* some argument provides, the payload of the last argument providing it
\* (positional arguments left to right, a nested Value providing all its
\* keys at its position, keyword pairs after them), and nothing else; a
\* call without keyword pairs always returns; no arguments give the empty
\* Value.
ProvidesAt(values, i, t) ==
    IF values[i].conj THEN t \in Keys(values[i].val) ELSE TypeOf(values[i].val) = t
PayloadAt(values, i, t) ==
    IF values[i].conj THEN values[i].val.data[t] ELSE values[i].val

ExpectedKeys(values, kwargs) ==
    {t \in Ids : \E i \in 1..Len(values) : ProvidesAt(values, i, t)}
    \cup {kwargs[j].name : j \in 1..Len(kwargs)}

ExpectedPayload(values, kwargs, t) ==
    IF \E j \in 1..Len(kwargs) : kwargs[j].name = t
    THEN kwargs[CHOOSE j \in 1..Len(kwargs) :
                    kwargs[j].name = t /\ \A k \in (j+1)..Len(kwargs) : kwargs[k].name # t].p
    ELSE LET i == CHOOSE n \in 1..Len(values) :
                    /\ ProvidesAt(values, n, t)
                    /\ \A m \in (n+1)..Len(values) : ~ProvidesAt(values, m, t)
         IN PayloadAt(values, i, t)

C2_LeftToRightLastWins ==
    (last.op = "init") =>
        LET values == ResolveAll(last.values, heap)
        IN /\ (last.kwargs = <<>>) => last.err = "none"
           /\ (last.err = "none") =>
                /\ last.val.has_data
                /\ Keys(last.val) = ExpectedKeys(values, last.kwargs)
                /\ \A t \in Keys(last.val) :
                        last.val.data[t] = ExpectedPayload(values, last.kwargs, t)
                /\ (last.values = <<>> /\ last.kwargs = <<>>) => Keys(last.val) = {}

\* A call returned whose plain argument collides with an entry of the nested
\* Value before it and replaces its payload.
C2_Witness ==
    /\ last.op = "init" /\ last.err = "none"
    /\ Len(last.values) = 2
    /\ last.values[1].conj /\ ~last.values[2].conj
    /\ LET inner == heap[last.values[1].ref]
           p == last.values[2].p
       IN /\ TypeOf(p) \in Keys(inner)
          /\ inner.data[TypeOf(p)] # p
          /\ Keys(inner) \ {TypeOf(p)} # {}

\* ------------------------------------------------------------------------
\* C6: V[expr] for a well-formed expression: when the identifiers of expr
\* are all keys of V the call returns a new Value with exactly those keys
\* and V's payloads, otherwise it raises KeyError and returns no Value.
C6_Slice ==
    (last.op = "getitem" /\ WellFormed(last.expr)) =>
        LET V == heap[last.self]
            S == FlatTypes(last.expr)
        IN IF S \subseteq Keys(V)
           THEN /\ last.err = "none"
                /\ last.val.has_data
                /\ Keys(last.val) = S
                /\ \A t \in S : last.val.data[t] = V.data[t]
           ELSE /\ last.err = "KeyError"
                /\ ~last.val.has_data

\* A union expression sliced a strict, non-empty part out of a Value.
C6_Witness ==
    /\ last.op = "getitem" /\ last.err = "none"
    /\ last.expr.kind = "union"
    /\ Keys(last.val) # {}
    /\ Keys(last.val) # Keys(heap[last.self])

\* ------------------------------------------------------------------------
\* C7 as stated: V.to(id) and V[id] both return the payload stored under
\* id when V holds id, and raise KeyError when it does not.
C7_BothReturnPayload ==
    /\ (last.op = "to") =>
            IF last.key \in Keys(heap[last.self])
            THEN last.err = "none" /\ last.ret = heap[last.self].data[last.key]
            ELSE last.err = "KeyError"
    /\ (last.op = "getitem" /\ last.expr.kind = "id") =>
            IF last.expr.t \in Keys(heap[last.self])
            THEN /\ last.err = "none"
                 /\ ~last.val.has_data
                 /\ last.ret = heap[last.self].data[last.expr.t]
            ELSE last.err = "KeyError"

\* C7 amended: V.to(id) returns the payload stored under id; V[id] returns
\* a new Value whose only entry is id with that payload; both raise
\* KeyError when V does not hold id.
C7_ToPayloadGetItemValue ==
    /\ (last.op = "to") =>
            IF last.key \in Keys(heap[last.self])
            THEN last.err = "none" /\ last.ret = heap[last.self].data[last.key]
            ELSE last.err = "KeyError"
    /\ (last.op = "getitem" /\ last.expr.kind = "id") =>
            IF last.expr.t \in Keys(heap[last.self])
            THEN /\ last.err = "none"
                 /\ last.val.has_data
                 /\ Keys(last.val) = {last.expr.t}
                 /\ last.val.data[last.expr.t] = heap[last.self].data[last.expr.t]
            ELSE last.err = "KeyError" /\ ~last.val.has_data

\* V[id] returned for an identifier V holds beside another.
C7_Witness ==
    /\ last.op = "getitem" /\ last.err = "none"
    /\ last.expr.kind = "id"
    /\ Keys(heap[last.self]) \ {last.expr.t} # {}

\* ------------------------------------------------------------------------
\* C8: v / X for an expression X the normalizer accepts returns a new Value
\* whose keys are those of v minus the identifiers of X, with v's payloads;
\* when v holds none of them the result equals v; and dividing the result
\* by X again gives an equal Value.
C8_Difference ==
    (last.op = "truediv" /\ Normalizable(last.expr)) =>
        LET v == heap[last.self]
            X == FlatTypes(last.expr)
            again == ConjunctionTruediv(last.val, last.expr)
        IN /\ last.err = "none"
           /\ last.val.has_data
           /\ Keys(last.val) = Keys(v) \ X
           /\ \A t \in Keys(last.val) : last.val.data[t] = v.data[t]
           /\ (X \cap Keys(v) = {}) => ConjunctionEq(last.val, v)
           /\ again.err = "none"
           /\ ConjunctionEq(again.obj, last.val) /\ ConjunctionEq(last.val, again.obj)

\* A difference removed one identifier v holds, was asked to remove one v
\* lacks, and left an entry.
C8_Witness ==
    /\ last.op = "truediv" /\ last.err = "none"
    /\ LET v == heap[last.self]
           X == FlatTypes(last.expr)
       IN /\ X \cap Keys(v) # {}
          /\ X \ Keys(v) # {}
          /\ Keys(last.val) # {}

\* ------------------------------------------------------------------------
\* C5 as stated: isinstance(x, A) is True exactly when x is a Value and
\* either A is the base class or the keys of x are the Type Set of A.
C5_InstanceIffExactKeys ==
    (last.op = "isinstance") =>
        (last.rb <=>
            /\ last.tok.conj
            /\ \/ last.cls.types = {}
               \/ Keys(heap[last.tok.ref]) = last.cls.types)

\* ------------------------------------------------------------------------
\* C9: for held Values a and b (their payloads are hashable): a == b
\* answers True exactly when the key sets are equal and the payloads under
\* every key are equal; equal Values have equal hashes, cached or not; and
\* a hash call returns the number it cached, which a further call returns.
C9_EqualityAndHash ==
    /\ (last.op = "eq") =>
            LET a == heap[last.self]
                b == heap[last.tok.ref]
            IN last.rb <=> (/\ Keys(a) = Keys(b)
                            /\ \A t \in Keys(a) : PyEq(a.data[t], b.data[t]))
    /\ \A i \in Objs, j \in Objs :
            ConjunctionEq(heap[i], heap[j]) =>
                ConjunctionHash(heap[i]).h = ConjunctionHash(heap[j]).h
    /\ (last.op = "hash") =>
            /\ heap[last.self].hash = <<last.rh>>
            /\ ConjunctionHash(heap[last.self]).h = last.rh
            /\ ConjunctionHash(ConjunctionHash(heap[last.self]).obj).h = last.rh

\* Two held Values compared equal although one stores True and the other 1
\* under int, next to a str entry, and the first has its hash cached.
C9_Witness ==
    /\ last.op = "eq" /\ last.rb
    /\ LET a == heap[last.self]
           b == heap[last.tok.ref]
       IN /\ a.data # b.data
          /\ Cardinality(Keys(a)) = 2
          /\ a.hash # NoHash
          /\ b.hash = NoHash

\* ------------------------------------------------------------------------
\* C10 as stated: assigning a field, deleting a field, invoking __init__
\* again, or writing an entry into the stored map raises TypeError and the
\* object is what it was before the attempt.
MutationOps == {"setattr", "delattr", "reinit", "datawrite"}

C10_AttemptsRaiseAndKeep ==
    (last.op \in MutationOps) =>
        /\ last.err = "TypeError"
        /\ heap[last.self] = last.val

\* ------------------------------------------------------------------------
\* C3: descriptors however obtained are equal, with equal hashes, exactly
\* when their Type Sets are equal. A subscript that names at least one
\* identifier returns the descriptor of the identifiers its expression
\* mentions, nested descriptors unwrapped, whatever the order of a union's
\* members; D & E has the union of the two Type Sets and equals the
\* descriptor subscripted with D | E.
Reversed(q) == [i \in 1..Len(q) |-> q[Len(q) + 1 - i]]

C3_DescriptorEquality ==
    /\ \A i \in Held, j \in Held :
            (MetaEq(held[i], held[j]) /\ MetaHash(held[i]) = MetaHash(held[j]))
                <=> (held[i].types = held[j].types)
    /\ (last.op = "deq") =>
            (last.rb /\ last.rh = 1) <=> (held[last.self].types = held[last.tok.ref].types)
    /\ (last.op = "dgetitem" /\ WellFormed(last.expr) /\ FlatTypes(last.expr) # {}) =>
            /\ last.dok
            /\ last.dval.types = FlatTypes(last.expr)
            /\ \A k \in Held :
                    MetaEq(last.dval, held[k]) <=> (FlatTypes(last.expr) = held[k].types)
            /\ (last.expr.kind = "union") =>
                    LET swapped == MetaGetItem(held[last.self],
                                               UnionOf(Reversed(last.expr.args)))
                    IN swapped.ok /\ MetaEq(swapped.d, last.dval)
                       /\ MetaHash(swapped.d) = MetaHash(last.dval)
    /\ (last.op \in {"dand", "drand"} /\ last.expr.kind \in {"desc", "id"}) =>
            LET D == held[last.self]
                both == MetaGetItem(Base, UnionOf(<<DescLeaf(D.types), last.expr>>))
            IN /\ last.dok
               /\ last.dval.types = D.types \cup FlatTypes(last.expr)
               /\ both.ok /\ MetaEq(last.dval, both.d)

\* A subscript whose union nests a held descriptor of two identifiers
\* beside a third returned a descriptor equal to one the program already
\* holds, built another way.
C3_Witness ==
    /\ last.op = "dgetitem" /\ last.dok
    /\ last.expr.kind = "union"
    /\ \E a \in 1..Len(last.expr.args) :
            /\ last.expr.args[a].kind = "desc"
            /\ Cardinality(last.expr.args[a].types) = 2
    /\ Cardinality(last.dval.types) = 3
    /\ \E k \in Held : MetaEq(held[k], last.dval)

\* ------------------------------------------------------------------------
\* C4: for descriptors X and Y, `X in Y` and issubclass(X, Y) are each True
\* exactly when the Type Set of X is a subset of that of Y; for x a single
\* class or a well-formed union, `x in Y` is True exactly when the
\* identifiers of x are all in the Type Set of Y.
C4_SubsetTests ==
    /\ (last.op = "dcontains" /\ last.expr.kind = "desc") =>
            /\ last.err = "none"
            /\ last.rb <=> (last.expr.types \subseteq held[last.self].types)
    /\ (last.op = "issubclass" /\ last.expr.kind = "desc") =>
            (last.rb <=> (last.expr.types \subseteq held[last.self].types))
    /\ (last.op = "dcontains" /\ last.expr.kind \in {"id", "union"}
                              /\ WellFormed(last.expr)) =>
            /\ last.err = "none"
            /\ last.rb <=> (FlatTypes(last.expr) \subseteq held[last.self].types)

\* A union of a class and a held descriptor was found in a strictly larger
\* descriptor.
C4_Witness ==
    /\ last.op = "dcontains" /\ last.rb
    /\ last.expr.kind = "union"
    /\ \E a \in 1..Len(last.expr.args) : last.expr.args[a].kind = "desc"
    /\ \E a \in 1..Len(last.expr.args) : last.expr.args[a].kind = "id"
    /\ FlatTypes(last.expr) # held[last.self].types
    /\ Cardinality(FlatTypes(last.expr)) = 2

\* ------------------------------------------------------------------------
\* Reading a Value: containment and iteration.

\* Conjunction.__contains__(self, item): `item in self`
ConjunctionContains(self, item) ==
    LET n == _normalize_union(item)
    IN IF n.err THEN [err |-> "TypeError", b |-> FALSE]
       ELSE [err |-> "none", b |-> n.types \subseteq Keys(self)]

\* Conjunction.values(self): one new single-entry Value per entry, given
\* here by the entry's identifier (the order of iteration is the dict's).
ConjunctionValues(self) == [t \in Keys(self) |-> Built([k \in {t} |-> self.data[t]])]

\* Conjunction.items(self): the pairs (identifier, wrapped entry).
ConjunctionItems(self) == [t \in Keys(self) |-> <<t, Built([k \in {t} |-> self.data[t]])>>]

\* Conjunction(*values) from plain payloads and held Values
ConstructFrom == ConstructWith({Base}, TokSeqs, {<<>>})

\* expr in heap[i]
ContainsOp ==
    /\ Idle
    /\ \E i \in Objs, expr \in ValueExprs :
        LET r == ConjunctionContains(heap[i], expr)
        IN /\ last' = [NoLast EXCEPT !.op = "contains", !.self = i, !.expr = expr,
                                     !.err = r.err, !.rb = r.b]
           /\ UNCHANGED <<heap, held, registries>>

\* list(heap[i].values())
ValuesOp ==
    /\ Idle
    /\ \E i \in Objs :
        /\ last' = [NoLast EXCEPT !.op = "values", !.self = i,
                                  !.vals = ConjunctionValues(heap[i])]
        /\ UNCHANGED <<heap, held, registries>>

\* list(heap[i].items())
ItemsOp ==
    /\ Idle
    /\ \E i \in Objs :
        /\ last' = [NoLast EXCEPT !.op = "items", !.self = i,
                                  !.vals = ConjunctionItems(heap[i])]
        /\ UNCHANGED <<heap, held, registries>>

\* ------------------------------------------------------------------------
\* Minting: src/conjunction_types/_mint.py and the wrapper of ndjson/utils.py

\* None, for a name, a callable or a type that is absent.
None == ""

\* The names the program mints under.
MintName(i) == CASE i = 1 -> "N1" [] i = 2 -> "N2" [] i = 3 -> "N3" [] OTHER -> "N4"
MintNames == {MintName(i) : i \in 1..MaxMints}

\* Origin types: a class and a generic alias.
MintTypes == {"int", "list[int]"}

\* isinstance(typ, GenericAlias) and get_origin(typ)
IsGenericAlias(typ) == typ = "list[int]"
GetOrigin(typ) == IF IsGenericAlias(typ) THEN "list" ELSE None

\* The function object a call of mint() creates: each one is a new object.
FnName(n) == CASE n = 1 -> "fn1" [] n = 2 -> "fn2" [] n = 3 -> "fn3"
               [] n = 4 -> "fn4" [] n = 5 -> "fn5" [] OTHER -> "fn6"
NewFn(m) == FnName(Cardinality(DOMAIN m.constructors) + 1)

\* A mint that creates a constructor on every call, registered name or not.
MintAlwaysNew(m, name, typ) ==
    IF name \in DOMAIN m.names /\ m.constructors[m.names[name]] # typ
    THEN [err |-> "ValueError", fn |-> None, minted |-> m]
    ELSE LET f == NewFn(m)
         IN [err |-> "none", fn |-> f,
             minted |-> [m EXCEPT !.constructors = Put(@, f, typ),
                                  !.names = Put(@, name, f)]]

\* A mint that binds a taken name to a new constructor of the other type.
MintRebinds(m, name, typ) ==
    IF name \in DOMAIN m.names /\ m.constructors[m.names[name]] = typ
    THEN [err |-> "none", fn |-> m.names[name], minted |-> m]
    ELSE LET f == NewFn(m)
         IN [err |-> "none", fn |-> f,
             minted |-> [m EXCEPT !.constructors = Put(@, f, typ),
                                  !.names = Put(@, name, f)]]

\* mint(name, typ) of _mint.py on the tables m
Mint(m, name, typ) ==
    IF name \in DOMAIN m.names
    THEN LET existing_constructor == m.names[name]
             existing_type == m.constructors[existing_constructor]
         IN IF existing_type = typ
            THEN [err |-> "none", fn |-> existing_constructor, minted |-> m]
            ELSE [err |-> "ValueError", fn |-> None, minted |-> m]
    ELSE LET minted_constructor == NewFn(m)
         IN [err |-> "none", fn |-> minted_constructor,
             minted |-> [m EXCEPT !.constructors = Put(@, minted_constructor, typ),
                                  !.names = Put(@, name, minted_constructor)]]

\* A wrapper that registers the serializer and deserializer before it mints.
NdjsonMintRegisterFirst(m, nd, name, typ, serializer, deserializer) ==
    LET r == Mint(m, name, typ)
        who == IF name \in DOMAIN m.names THEN m.names[name] ELSE NewFn(m)
        nd1 == IF serializer # None
               THEN [nd EXCEPT !.serializers = Put(@, who, serializer)] ELSE nd
        nd2 == IF deserializer # None
               THEN [nd1 EXCEPT !.deserializers = Put(@, name, deserializer)] ELSE nd1
    IN [err |-> r.err, fn |-> r.fn, minted |-> r.minted, ndjson |-> nd2]

\* mint(name, typ, serializer, deserializer) of ndjson/utils.py
NdjsonMint(m, nd, name, typ, serializer, deserializer) ==
    LET r == Mint(m, name, typ)
    IN IF r.err # "none"
       THEN [err |-> r.err, fn |-> None, minted |-> r.minted, ndjson |-> nd]
       ELSE LET constructor == r.fn
                nd1 == IF serializer # None
                       THEN [nd EXCEPT !.serializers = Put(@, constructor, serializer)]
                       ELSE nd
                nd2 == IF deserializer # None
                       THEN [nd1 EXCEPT !.deserializers = Put(@, name, deserializer)]
                       ELSE nd1
            IN [err |-> "none", fn |-> constructor, minted |-> r.minted, ndjson |-> nd2]

\* get_origin_type(constructor)
GetOriginType(m, constructor) ==
    IF constructor \in DOMAIN m.constructors THEN m.constructors[constructor] ELSE None

\* get_mint_name(constructor): the first name bound to that very function
GetMintName(m, constructor) ==
    IF \E name \in DOMAIN m.names : m.names[name] = constructor
    THEN CHOOSE name \in DOMAIN m.names : m.names[name] = constructor
    ELSE None

\* get_constructor_by_name(name)
GetConstructorByName(m, name) ==
    IF name \in DOMAIN m.names THEN m.names[name] ELSE None

\* The serializers and deserializers a program passes to the wrapper. A
\* serializer is named by the key it wraps the payload under,
\* lambda v: {"M": v}, and the deserializer lambda d: d["M"] by the same key.
SerArgs == {None, "M"}
DeserArgs == {None, "M"}

\* mint(name, typ) with the names and types given
MintWith(names, types) ==
    /\ Idle
    /\ Cardinality(DOMAIN minted.constructors) <= MaxMints
    /\ \E name \in names, typ \in types :
        LET r == Mint(minted, name, typ)
        IN /\ minted' = r.minted
           /\ last' = [NoLast EXCEPT !.op = "mint", !.key = name, !.typ = typ,
                                     !.err = r.err, !.fn = r.fn]
           /\ UNCHANGED <<heap, held, ndjson, objects, rest>>

MintOp == MintWith(MintNames, MintTypes)

\* conjunction_types.ndjson.mint(name, typ, serializer, deserializer)
NdjsonMintWith(names, types, pairs) ==
    /\ Idle
    /\ Cardinality(DOMAIN minted.constructors) <= MaxMints
    /\ \E name \in names, typ \in types, pair \in pairs :
        LET r == NdjsonMint(minted, ndjson, name, typ, pair[1], pair[2])
        IN /\ minted' = r.minted
           /\ ndjson' = r.ndjson
           /\ last' = [NoLast EXCEPT !.op = "ndjson_mint", !.key = name, !.typ = typ,
                                     !.ser = pair[1], !.deser = pair[2],
                                     !.err = r.err, !.fn = r.fn]
           /\ UNCHANGED <<heap, held, objects, rest>>

NdjsonMintOp == NdjsonMintWith(MintNames, MintTypes, SerArgs \X DeserArgs)

\* The callables a program can ask about: the minted ones and some other function.
Callables == DOMAIN minted.constructors \cup {"len"}

GetOriginTypeOp ==
    /\ Idle
    /\ \E f \in Callables :
        /\ last' = [NoLast EXCEPT !.op = "get_origin_type", !.fn = f,
                                  !.typ = GetOriginType(minted, f)]
        /\ UNCHANGED <<heap, held, registries>>

GetMintNameOp ==
    /\ Idle
    /\ \E f \in Callables :
        /\ last' = [NoLast EXCEPT !.op = "get_mint_name", !.fn = f,
                                  !.key = GetMintName(minted, f)]
        /\ UNCHANGED <<heap, held, registries>>

\* get_constructor_by_name(name)
GetConstructorByNameOp ==
    /\ Idle
    /\ \E name \in MintNames \cup {"len"} :
        /\ last' = [NoLast EXCEPT !.op = "get_constructor_by_name", !.key = name,
                                  !.fn = GetConstructorByName(minted, name)]
        /\ UNCHANGED <<heap, held, registries>>

\* The registry of minted identities and its lookups.
NextMint == MintOp \/ NdjsonMintOp \/ Discard
            \/ GetOriginTypeOp \/ GetMintNameOp \/ GetConstructorByNameOp
SpecMint == Init /\ [][NextMint]_vars

\* ------------------------------------------------------------------------
\* A step that is a call of mint, direct or through the NDJSON wrapper.
MintStep == last.op = "idle" /\ last'.op \in {"mint", "ndjson_mint"}

\* The call's name is already registered, with the origin type the call gives.
SameRegistered == /\ last'.key \in DOMAIN minted.names
                  /\ minted.constructors[minted.names[last'.key]] = last'.typ

\* The call's name is already registered with another origin type.
OtherRegistered == /\ last'.key \in DOMAIN minted.names
                   /\ minted.constructors[minted.names[last'.key]] # last'.typ

C12_Step ==
    /\ (MintStep /\ SameRegistered) =>
          /\ last'.err = "none"
          /\ last'.fn = minted.names[last'.key]
          /\ minted'.names = minted.names
          /\ minted'.constructors = minted.constructors
    /\ (MintStep /\ last'.key \notin DOMAIN minted.names) =>
          /\ last'.err = "none"
          /\ last'.fn \notin DOMAIN minted.constructors
          /\ minted'.names[last'.key] = last'.fn

C13_Step ==
    MintStep =>
        /\ (last'.err = "ValueError") = OtherRegistered
        /\ last'.err \in {"none", "ValueError"}
        /\ last'.err = "ValueError" =>
              /\ last'.fn = None
              /\ minted' = minted
              /\ ndjson' = ndjson

\* C13: a call of mint, direct or through the wrapper with or without a
\* serializer and a deserializer, raises ValueError exactly when its name
\* is registered with another origin type; it then returns no identity and
\* the name table, the origin table, the tagged values and the NDJSON
\* serializer and deserializer tables are what they were.
C13_NameConflict == [][C13_Step]_vars

\* The wrapper, given a serializer and a deserializer, failed on a taken
\* name while the NDJSON tables held entries.
C13_Witness ==
    /\ last.op = "ndjson_mint" /\ last.err = "ValueError"
    /\ last.ser # None /\ last.deser # None
    /\ DOMAIN ndjson.serializers # {}
    /\ DOMAIN ndjson.deserializers # {}

\* ------------------------------------------------------------------------
TablesOneToOne(m) ==
    /\ {m.names[n] : n \in DOMAIN m.names} = DOMAIN m.constructors
    /\ \A n1 \in DOMAIN m.names, n2 \in DOMAIN m.names :
          n1 # n2 => m.names[n1] # m.names[n2]
    /\ \A M \in DOMAIN m.constructors :
          /\ GetMintName(m, M) \in DOMAIN m.names
          /\ GetConstructorByName(m, GetMintName(m, M)) = M
          /\ GetOriginType(m, M) \in MintTypes

C14_Step ==
    /\ TablesOneToOne(minted')
    /\ \A M \in DOMAIN minted.constructors :
          /\ M \in DOMAIN minted'.constructors
          /\ GetOriginType(minted', M) = GetOriginType(minted, M)
          /\ GetMintName(minted', M) = GetMintName(minted, M)
    /\ (MintStep /\ last'.err = "none") =>
          /\ GetOriginType(minted', last'.fn) = last'.typ
          /\ GetMintName(minted', last'.fn) = last'.key
    /\ (last.op = "idle" /\ last'.op = "get_mint_name") =>
          IF last'.fn \in DOMAIN minted.constructors
          THEN minted.names[last'.key] = last'.fn
          ELSE last'.key = None
    /\ (last.op = "idle" /\ last'.op = "get_constructor_by_name") =>
          IF last'.key \in DOMAIN minted.names
          THEN GetMintName(minted, last'.fn) = last'.key
          ELSE last'.fn = None
    /\ (last.op = "idle" /\ last'.op = "get_origin_type") =>
          (last'.typ = None) = (last'.fn \notin DOMAIN minted.constructors)

\* C14: in the tables after any step, every name is bound to one minted
\* identity and every minted identity to one name: get_mint_name(M) is a
\* registered name, get_constructor_by_name of it is M, and two names never
\* share an identity, whatever their origin types; get_origin_type(M) is the
\* origin M was minted with and never changes; the lookups answer from
\* these tables, and None for a callable or a name that was never minted.
C14_OneNameOneIdentity == [][C14_Step]_vars

\* Two names are registered over one origin type and the second identity
\* was looked up by its name.
C14_Witness ==
    /\ last.op = "get_constructor_by_name" /\ last.fn = FnName(2)
    /\ \E n1 \in DOMAIN minted.names, n2 \in DOMAIN minted.names :
          /\ n1 # n2
          /\ minted.constructors[minted.names[n1]] = minted.constructors[minted.names[n2]]

\* ------------------------------------------------------------------------
\* Minted values: the objects a minted constructor returns and their tags.
\* objects maps the address of each live object to the object and to the
\* function whose call returned it (None for an object made otherwise);
\* id(value) is the address, and an address is free again once the object
\* is gone.
Addrs == 1..MaxAddr
Live == DOMAIN objects
Free == Addrs \ Live

\* The object a constructor call creates at address a.
ObjPayload(ty, v, a) == [ty |-> ty, v |-> v, id |-> a]

\* base_constructor of mint(): the origin of a generic alias, else the type
BaseConstructor(typ) ==
    IF IsGenericAlias(typ)
    THEN IF GetOrigin(typ) # None THEN GetOrigin(typ) ELSE typ
    ELSE typ

\* get_minted_type(value): _minted_values.get(id(value))
GetMintedType(m, a) ==
    IF a \in DOMAIN m.values THEN m.values[a] ELSE None

\* value = f(arg) for a minted constructor f: the base constructor makes a
\* new object at some free address and the address is tagged with f.
InvokeOp ==
    /\ Idle
    /\ \E f \in DOMAIN minted.constructors, a \in Free :
        LET value == ObjPayload(BaseConstructor(minted.constructors[f]), 1, a)
        IN /\ objects' = Put(objects, a, [p |-> value, by |-> f])
           /\ minted' = [minted EXCEPT !.values = Put(@, a, f)]
           /\ last' = [NoLast EXCEPT !.op = "invoke", !.fn = f, !.addr = a, !.ret = value]
           /\ UNCHANGED <<heap, held, ndjson, rest>>

\* value = [...]: the program makes a list without any minted constructor.
NewPlainOp ==
    /\ Idle
    /\ \E a \in Free :
        LET value == ObjPayload("list", 1, a)
        IN /\ objects' = Put(objects, a, [p |-> value, by |-> None])
           /\ last' = [NoLast EXCEPT !.op = "plain", !.addr = a, !.ret = value]
           /\ UNCHANGED <<heap, held, minted, ndjson, rest>>

\* del value: the last reference goes and the object is freed; no table of
\* _mint.py is told.
DropOp ==
    /\ Idle
    /\ \E a \in Live :
        /\ objects' = [b \in Live \ {a} |-> objects[b]]
        /\ last' = [NoLast EXCEPT !.op = "drop", !.addr = a]
        /\ UNCHANGED <<heap, held, minted, ndjson, rest>>

\* get_minted_type(value) for a live object
GetMintedTypeOp ==
    /\ Idle
    /\ \E a \in Live :
        /\ last' = [NoLast EXCEPT !.op = "get_minted_type", !.addr = a,
                                  !.fn = GetMintedType(minted, a)]
        /\ UNCHANGED <<heap, held, registries>>

\* mint(name, list[int])
MintListOp == MintWith(MintNames, {"list[int]"})

\* Tagging and looking up values while objects come and go.
NextTags == MintListOp \/ InvokeOp \/ NewPlainOp \/ DropOp \/ GetMintedTypeOp \/ Discard
SpecTags == Init /\ [][NextTags]_vars

\* Conjunction(*values) of up to three live objects
ObjToks == {PlainTok(objects[a].p) : a \in Live}
ObjSeqs == UNION {[1..n -> ObjToks] : n \in 1..(MaxArgs + 1)}
ConstructObjsOp == ConstructWith({Base}, ObjSeqs, {<<>>})

\* heap[i].to(k), k a minted constructor or the class list
ToKeyOp ==
    /\ Idle
    /\ \E i \in Objs, k \in DOMAIN minted.constructors \cup {"list"} :
        LET r == ConjunctionTo(heap[i], k)
        IN /\ last' = [NoLast EXCEPT !.op = "to", !.self = i, !.key = k,
                                     !.err = r.err, !.ret = r.ret]
           /\ UNCHANGED <<heap, held, registries>>

\* Values built from minted values.
NextSlots == MintListOp \/ InvokeOp \/ NewPlainOp \/ ConstructObjsOp \/ Keep
             \/ ToKeyOp \/ Discard
SpecSlots == Init /\ [][NextSlots]_vars

\* ------------------------------------------------------------------------
MadeBy(p) == objects[p.id].by

\* C15: a Conjunction built from a value of minted identity N1, a value of
\* another minted identity N2 over the same origin type and a plain value
\* of that type holds three entries, under N1, N2 and the type, and to()
\* of each returns the respective value.
C15_ThreeSlots ==
    (/\ last.op = "init" /\ last.err = "none" /\ Len(last.values) = 3
     /\ \A i \in 1..3 : last.values[i].p.id \in Live
     /\ MadeBy(last.values[1].p) # None
     /\ MadeBy(last.values[2].p) # None
     /\ MadeBy(last.values[1].p) # MadeBy(last.values[2].p)
     /\ MadeBy(last.values[3].p) = None) =>
        LET N1 == MadeBy(last.values[1].p)
            N2 == MadeBy(last.values[2].p)
            T == TypeOf(last.values[3].p)
        IN /\ Keys(last.val) = {N1, N2, T}
           /\ ConjunctionTo(last.val, N1) = [err |-> "none", ret |-> last.values[1].p]
           /\ ConjunctionTo(last.val, N2) = [err |-> "none", ret |-> last.values[2].p]
           /\ ConjunctionTo(last.val, T) = [err |-> "none", ret |-> last.values[3].p]

\* ------------------------------------------------------------------------
\* C16: get_minted_type(v) answers M exactly when v was returned by a call
\* of M, and None for a value no minted constructor returned.
C16_TagIsProducer ==
    last.op = "get_minted_type" => last.fn = objects[last.addr].by

\* ------------------------------------------------------------------------
\* The NDJSON codec (src/conjunction_types/ndjson/utils.py).
\* Type identifiers are the builtin classes, the class Point of a module
\* app, the generic alias list[int] and the minted constructors.
Classes == {"int", "bool", "str", "list", "Point"}
Builtins == {"int", "bool", "str", "list"}

\* isinstance(typ, type)
IsClass(typ) == typ \in Classes

\* typ.__module__ and typ.__qualname__ as _serialize_type joins them
QualifiedName(typ) == IF typ \in Builtins THEN typ ELSE "app." \o typ

\* getattr(typ, "__name__", None): a class has its name, a minted
\* constructor the name mint() gave it, list[int] the name of list.
NameAttr(m, typ) ==
    IF typ \in DOMAIN m.constructors THEN GetMintName(m, typ)
    ELSE IF IsGenericAlias(typ) THEN GetOrigin(typ)
    ELSE typ

\* Payloads of the codec: a list, a Point, False, JSON null and the dict a
\* serializer wraps a payload in.
List1 == Payload("list", 1)
Pt1 == Payload("Point", 1)
BoolFalse == Payload("bool", 0)
Null == Payload("NoneType", 0)
Wrapped(tag, p) == Payload("dict", <<tag, p>>)

\* data is None
IsNull(d) == d.ty = "NoneType"

\* isinstance(value, cls)
PyIsInstance(p, cls) == p.ty = cls \/ (p.ty = "bool" /\ cls = "int")

\* json.dumps(value) succeeds
JsonDumpsOk(p) == p.ty \in {"int", "bool", "str", "list", "dict", "NoneType"}

\* serializer(value) for the serializer lambda v: {tag: v}
ApplySerializer(tag, p) == Wrapped(tag, p)

\* deserializer(data) for the deserializer lambda d: d[tag]
ApplyDeserializer(tag, d) ==
    IF d.ty = "dict"
    THEN IF d.v[1] = tag THEN [err |-> "none", val |-> d.v[2]]
         ELSE [err |-> "KeyError", val |-> Null]
    ELSE [err |-> "TypeError", val |-> Null]

\* cls(data): direct construction by a class
CallClass(cls, d) ==
    CASE cls = "int" ->
            IF d.ty \in NumericIds THEN [err |-> "none", val |-> Payload("int", d.v)]
            ELSE IF d.ty = "str" THEN [err |-> "ValueError", val |-> Null]
            ELSE [err |-> "TypeError", val |-> Null]
      [] cls = "bool" ->
            [err |-> "none",
             val |-> IF d.ty \in NumericIds /\ d.v = 0 THEN BoolFalse ELSE BoolTrue]
      [] cls = "list" ->
            IF d.ty = "list" THEN [err |-> "none", val |-> d]
            ELSE IF d.ty = "dict" THEN [err |-> "none", val |-> Payload("list", <<d.v[1]>>)]
            ELSE IF d.ty = "str" THEN [err |-> "none", val |-> Payload("list", <<d.v>>)]
            ELSE [err |-> "TypeError", val |-> Null]
      [] cls = "str" ->
            IF d.ty = "str" THEN [err |-> "none", val |-> d]
            ELSE [err |-> "none", val |-> Payload("str", <<d>>)]
      [] OTHER -> [err |-> "TypeError", val |-> Null]

\* _serialize_type(typ); every identifier here is callable
SerializeType(m, typ) ==
    LET mint_name == GetMintName(m, typ)
    IN IF mint_name # None THEN mint_name
       ELSE IF IsGenericAlias(typ) THEN typ
       ELSE IF IsClass(typ) THEN QualifiedName(typ)
       ELSE typ

\* The names eval() knows in _deserialize_type: the builtins the code lists,
\* overlaid with the registry's safe globals.
SafeNamespace(reg) ==
    [n \in Builtins \cup {"pathlib", "Path"} \cup DOMAIN reg.safe_globals |->
        IF n \in DOMAIN reg.safe_globals THEN reg.safe_globals[n]
        ELSE IF n = "pathlib" THEN "<module pathlib>"
        ELSE n]

\* The expression a type representation is as Python source.
Name(id) == [kind |-> "name", id |-> id, l |-> <<>>, r |-> <<>>]
Num(id) == [kind |-> "num", id |-> id, l |-> <<>>, r |-> <<>>]
Subscript(l, r) == [kind |-> "subscript", id |-> "", l |-> l, r |-> r]
BinOp(l, r) == [kind |-> "add", id |-> "", l |-> l, r |-> r]
Attribute(l, id) == [kind |-> "attribute", id |-> id, l |-> l, r |-> <<>>]
Call(l) == [kind |-> "call", id |-> "", l |-> l, r |-> <<>>]

Parse(type_repr) ==
    CASE type_repr = "list[int]" -> Subscript(Name("list"), Name("int"))
      [] type_repr = "int[int]" -> Subscript(Name("int"), Name("int"))
      [] type_repr = "app.Point" -> Attribute(Name("app"), "Point")
      [] type_repr = "pathlib.Path" -> Attribute(Name("pathlib"), "Path")
      [] type_repr = "1+1" -> BinOp(Num("1"), Num("1"))
      [] type_repr = "pathlib.os.getcwd()" ->
            Call(Attribute(Attribute(Name("pathlib"), "os"), "getcwd"))
      [] OTHER -> Name(type_repr)

\* getattr(obj, id) for the objects reachable from the namespace
GetAttr(obj, id) ==
    CASE obj = "<module pathlib>" /\ id = "Path" -> "Path"
      [] obj = "<module pathlib>" /\ id = "os" -> "<module os>"
      [] obj = "<module os>" /\ id = "getcwd" -> "<function getcwd>"
      [] OTHER -> None

Evaluated(obj, ran) == [err |-> "none", typ |-> obj, ran |-> ran]
Raised(err, ran) == [err |-> err, typ |-> None, ran |-> ran]

\* eval(type_repr, {"__builtins__": {}}, namespace): the expression is
\* evaluated as Python evaluates it, names looked up in the namespace only;
\* ran is the set of functions the evaluation called.
RECURSIVE EvalExpr(_, _)
EvalExpr(e, namespace) ==
    CASE e.kind = "name" ->
            IF e.id \in DOMAIN namespace THEN Evaluated(namespace[e.id], {})
            ELSE Raised("NameError", {})
      [] e.kind = "num" -> Evaluated("<int " \o e.id \o ">", {})
      [] e.kind = "subscript" ->
            LET l == EvalExpr(e.l, namespace)
                r == EvalExpr(e.r, namespace)
            IN IF l.err # "none" THEN l
               ELSE IF r.err # "none" THEN Raised(r.err, l.ran \cup r.ran)
               ELSE IF l.typ = "list" /\ r.typ = "int"
               THEN Evaluated("list[int]", l.ran \cup r.ran)
               ELSE Raised("TypeError", l.ran \cup r.ran)
      [] e.kind = "add" ->
            LET l == EvalExpr(e.l, namespace)
                r == EvalExpr(e.r, namespace)
            IN IF l.err # "none" THEN l
               ELSE IF r.err # "none" THEN Raised(r.err, l.ran \cup r.ran)
               ELSE IF l.typ = "<int 1>" /\ r.typ = "<int 1>"
               THEN Evaluated("<int 2>", l.ran \cup r.ran)
               ELSE Raised("TypeError", l.ran \cup r.ran)
      [] e.kind = "attribute" ->
            LET l == EvalExpr(e.l, namespace)
            IN IF l.err # "none" THEN l
               ELSE IF GetAttr(l.typ, e.id) # None THEN Evaluated(GetAttr(l.typ, e.id), l.ran)
               ELSE Raised("AttributeError", l.ran)
      [] OTHER ->
            LET l == EvalExpr(e.l, namespace)
            IN IF l.err # "none" THEN l
               ELSE IF l.typ = "<function getcwd>"
               THEN Evaluated("<str cwd>", l.ran \cup {l.typ})
               ELSE Raised("TypeError", l.ran)

Eval(type_repr, namespace) == EvalExpr(Parse(type_repr), namespace)

\* _deserialize_type(type_repr, registry)
DeserializeType(m, reg, type_repr) ==
    LET constructor == GetConstructorByName(m, type_repr)
    IN IF constructor # None THEN Evaluated(constructor, {})
       ELSE LET r == Eval(type_repr, SafeNamespace(reg))
            IN IF r.err # "none" THEN Raised("ValueError", r.ran) ELSE r

\* TypeRegistry.register(typ, serializer, deserializer, name=None)
Register(reg, typ, serializer, deserializer) ==
    LET type_name == typ
        at == {i \in 1..Len(reg.serializers) : reg.serializers[i].typ = typ}
        entry == [typ |-> typ, ser |-> serializer]
    IN [serializers |-> IF at = {} THEN Append(reg.serializers, entry)
                        ELSE [reg.serializers EXCEPT ![CHOOSE i \in at : TRUE] = entry],
        deserializers |-> Put(reg.deserializers, type_name, deserializer),
        type_aliases |-> Put(reg.type_aliases, type_name, typ),
        safe_globals |-> Put(reg.safe_globals, type_name, typ)]

\* typ in self._serializers, and self._serializers[typ]
HasSerializer(reg, typ) == \E i \in 1..Len(reg.serializers) : reg.serializers[i].typ = typ
SerializerOf(reg, typ) ==
    reg.serializers[CHOOSE i \in 1..Len(reg.serializers) : reg.serializers[i].typ = typ].ser

NoData == [err |-> "TypeError", val |-> Null, via |-> "none"]
Data(val, via) == [err |-> "none", val |-> val, via |-> via]

\* A serialize_value that tries the registry before the serializer minted
\* with the identifier.
SerializeValueRegistryFirst(nd, value, value_type) ==
    LET reg == nd.registry
        inst == {i \in 1..Len(reg.serializers) : PyIsInstance(value, reg.serializers[i].typ)}
    IN IF inst # {}
       THEN Data(ApplySerializer(reg.serializers[CHOOSE i \in inst : \A j \in inst : i <= j].ser,
                                 value), "instance")
       ELSE IF value_type \in DOMAIN nd.serializers
       THEN Data(ApplySerializer(nd.serializers[value_type], value), "minted")
       ELSE IF JsonDumpsOk(value) THEN Data(value, "native")
       ELSE NoData

\* TypeRegistry.serialize_value(value, value_type): the serializer minted
\* with the identifier, the registry's for the exact type, for the generic
\* origin, of the first registered type the value is an instance of, then
\* the value itself when json.dumps takes it, else TypeError.
SerializeValue(nd, value, value_type) ==
    LET reg == nd.registry
        origin == GetOrigin(value_type)
        check_type == IF origin # None THEN origin ELSE value_type
        inst == {i \in 1..Len(reg.serializers) : PyIsInstance(value, reg.serializers[i].typ)}
    IN IF value_type \in DOMAIN nd.serializers
       THEN Data(ApplySerializer(nd.serializers[value_type], value), "minted")
       ELSE IF HasSerializer(reg, value_type)
       THEN Data(ApplySerializer(SerializerOf(reg, value_type), value), "exact")
       ELSE IF HasSerializer(reg, check_type)
       THEN Data(ApplySerializer(SerializerOf(reg, check_type), value), "origin")
       ELSE IF inst # {}
       THEN Data(ApplySerializer(reg.serializers[CHOOSE i \in inst : \A j \in inst : i <= j].ser,
                                 value), "instance")
       ELSE IF JsonDumpsOk(value) THEN Data(value, "native")
       ELSE NoData

\* fn(data) of a deserializer or constructor, with the branch that ran
Via(r, via) == [err |-> r.err, val |-> r.val, via |-> via]

\* A deserialize_value that constructs through the type before it looks
\* for a registered deserializer.
DeserializeValueConstructFirst(m, nd, data, value_type) ==
    IF IsClass(value_type)
    THEN IF IsNull(data) THEN Data(Null, "construct")
         ELSE Via(CallClass(value_type, data), "construct")
    ELSE Data(data, "asis")

\* TypeRegistry.deserialize_value(data, value_type): the deserializer
\* minted with the identifier's name, the registry's for the identifier's
\* name, for its generic origin's name, then construction by the origin or
\* by the class (None stays None), else the data as it is.
DeserializeValue(m, nd, data, value_type) ==
    LET reg == nd.registry
        mint_name == GetMintName(m, value_type)
        type_name == NameAttr(m, value_type)
        origin == GetOrigin(value_type)
    IN IF mint_name # None /\ mint_name \in DOMAIN nd.deserializers
       THEN Via(ApplyDeserializer(nd.deserializers[mint_name], data), "minted")
       ELSE IF type_name \in DOMAIN reg.deserializers
       THEN Via(ApplyDeserializer(reg.deserializers[type_name], data), "exact")
       ELSE IF origin # None
       THEN IF origin \in DOMAIN reg.deserializers
            THEN Via(ApplyDeserializer(reg.deserializers[origin], data), "origin")
            ELSE IF IsNull(data) THEN Data(Null, "construct")
            ELSE Via(CallClass(origin, data), "construct")
       ELSE IF IsClass(value_type)
       THEN IF IsNull(data) THEN Data(Null, "construct")
            ELSE Via(CallClass(value_type, data), "construct")
       ELSE Data(data, "asis")

NoJson == [err |-> "none", rec |-> NoRecord, via |-> EmptyMap]

\* ConjunctionSerializer.to_json(conj), the keys of conj._data taken in the
\* order given. The value key f"{base_name}_{count}" is the pair of the
\* base name and the number of earlier keys with that base name.
RECURSIVE ToJsonFrom(_, _, _, _, _, _)
ToJsonFrom(m, nd, conj, order, i, result) ==
    IF i > Len(order) THEN result
    ELSE LET typ == order[i]
             type_repr == SerializeType(m, typ)
             name == NameAttr(m, typ)
             base_name == IF name # None THEN name
                          ELSE IF GetOrigin(typ) # None THEN GetOrigin(typ) ELSE "type"
             count == Cardinality({j \in 1..Len(result.rec.types) :
                                      result.rec.types[j].key[1] = base_name})
             value_key == <<base_name, count>>
             s == SerializeValue(nd, conj.data[typ], typ)
         IN IF s.err # "none" THEN [NoJson EXCEPT !.err = s.err]
            ELSE ToJsonFrom(m, nd, conj, order, i + 1,
                    [err |-> "none",
                     rec |-> [types |-> Append(result.rec.types,
                                               [type |-> type_repr, key |-> value_key]),
                              data |-> Put(result.rec.data, value_key, s.val)],
                     via |-> Put(result.via, typ, s.via)])

ToJson(m, nd, conj, order) == ToJsonFrom(m, nd, conj, order, 1, NoJson)

NoValue(err) == [err |-> err, obj |-> New(Base), via |-> EmptyMap]

\* The loop of from_json over the entries of "__conjunction_types__".
RECURSIVE FromJsonFrom(_, _, _, _, _, _)
FromJsonFrom(m, nd, rec, i, conj_data, via) ==
    IF i > Len(rec.types) THEN [err |-> "none", obj |-> Built(conj_data), via |-> via]
    ELSE LET type_repr == rec.types[i].type
             value_key == rec.types[i].key
         IN IF value_key \notin DOMAIN rec.data THEN NoValue("ValueError")
            ELSE LET t == DeserializeType(m, nd.registry, type_repr)
                 IN IF t.err # "none" THEN NoValue(t.err)
                    ELSE LET v == DeserializeValue(m, nd, rec.data[value_key], t.typ)
                         IN IF v.err # "none" THEN NoValue(v.err)
                            ELSE FromJsonFrom(m, nd, rec, i + 1,
                                              Put(conj_data, t.typ, v.val),
                                              Put(via, t.typ, v.via))

\* ConjunctionSerializer.from_json(data)
FromJson(m, nd, rec) ==
    IF rec.types = <<>> THEN NoValue("ValueError")
    ELSE FromJsonFrom(m, nd, rec, 1, EmptyMap, EmptyMap)

\* ------------------------------------------------------------------------
\* A program that registers custom types, mints identities with or without
\* a serializer pair, makes a Value, encodes it and decodes the record, or
\* decodes a record written by hand.

\* registry.register(typ, lambda v: {name: v}, lambda d: d[name])
RegTypes == {"int", "list", "Point"}

RegisterOp ==
    /\ Idle
    /\ \E typ \in RegTypes :
        ndjson' = [ndjson EXCEPT !.registry = Register(@, typ, typ, typ)]
    /\ UNCHANGED <<heap, held, last, minted, objects, rest>>

\* mint(name, typ) and mint(name, typ, serializer=..., deserializer=...)
\* under a fresh name and under the name of a builtin.
CodecMintOp ==
    NdjsonMintWith({"N1", "list"}, {"list[int]", "Point"}, {<<None, None>>, <<"M", "M">>})

\* The entries a Value handed to the codec can have: a payload of the key's
\* class, or of the origin type under a generic alias or a minted identity.
MaxEntries == 2

CodecEntries ==
    [int |-> Int1, bool |-> BoolFalse, list |-> List1, Point |-> Pt1]
        @@ ("list[int]" :> List1)
        @@ [f \in DOMAIN minted.constructors |->
               Payload(BaseConstructor(minted.constructors[f]), 1)]

\* The orders a dict can hold the keys S in.
Orders(S) == {o \in [1..Cardinality(S) -> S] : \A i, j \in DOMAIN o : o[i] = o[j] => i = j}

\* v = _make_conjunction_with_types({...}) or Conjunction()
MakeValueOp ==
    /\ Idle
    /\ \E S \in SUBSET DOMAIN CodecEntries :
        /\ Cardinality(S) <= MaxEntries
        /\ \E order \in Orders(S) :
            last' = [NoLast EXCEPT !.op = "make", !.order = order,
                                   !.val = Built([k \in S |-> CodecEntries[k]])]
    /\ UNCHANGED <<heap, held, registries>>

\* rec = serializer.to_json(v)
ToJsonOp ==
    /\ last.op = "make"
    /\ LET r == ToJson(minted, ndjson, last.val, last.order)
       IN last' = [last EXCEPT !.op = "to_json", !.err = r.err, !.rec = r.rec, !.vals = r.via]
    /\ UNCHANGED <<heap, held, registries>>

\* w = serializer.from_json(rec)
FromJsonOp ==
    /\ last.op = "to_json"
    /\ last.err = "none"
    /\ LET r == FromJson(minted, ndjson, last.rec)
       IN last' = [last EXCEPT !.op = "from_json", !.err = r.err, !.out = r.obj, !.vals = r.via]
    /\ UNCHANGED <<heap, held, registries>>

\* Records written by hand: one entry of some type string and payload, the
\* record without entries, and a record whose entry names a missing key.
HandTypes == {"int", "list", "list[int]", "Point", "app.Point", "N1", "Nope"}
HandData == {Int1, List1, StrA, Null, Wrapped("M", List1), Wrapped("list", List1)}
HandKey == <<"k", 0>>
HandRecords ==
    {[types |-> <<[type |-> t, key |-> HandKey]>>, data |-> (HandKey :> d)] :
        t \in HandTypes, d \in HandData}
    \cup {NoRecord, [types |-> <<[type |-> "int", key |-> HandKey]>>, data |-> EmptyMap]}

\* serializer.from_json(record) on a record written by hand
DecodeOp ==
    /\ Idle
    /\ \E rec \in HandRecords :
        LET r == FromJson(minted, ndjson, rec)
        IN last' = [NoLast EXCEPT !.op = "decode", !.err = r.err, !.rec = rec,
                                  !.out = r.obj, !.vals = r.via]
    /\ UNCHANGED <<heap, held, registries>>

NextCodec ==
    \/ RegisterOp
    \/ CodecMintOp
    \/ MakeValueOp
    \/ ToJsonOp
    \/ FromJsonOp
    \/ DecodeOp
    \/ Discard

SpecCodec == Init /\ [][NextCodec]_vars

\* ------------------------------------------------------------------------
\* serializer.to_json(heap[i]), the keys of its dict in some order
EncodeOp ==
    /\ Idle
    /\ \E i \in Objs : \E order \in Orders(Keys(heap[i])) :
        LET r == ToJson(minted, ndjson, heap[i], order)
        IN last' = [NoLast EXCEPT !.op = "encode", !.self = i, !.order = order,
                                  !.err = r.err, !.rec = r.rec]
    /\ UNCHANGED <<heap, held, registries>>

\* Every operation that reads or derives from Values.
NextFrame == ConstructFrom \/ Keep \/ Discard \/ AndOp \/ TrueDivOp \/ GetItemOp
             \/ ToOp \/ ContainsOp \/ ValuesOp \/ ItemsOp \/ HashOp \/ EncodeOp
SpecFrame == Init /\ [][NextFrame]_vars

Transformations == {"init", "and", "truediv", "getitem"}

C11_Step ==
    /\ Len(heap') >= Len(heap)
    /\ \A i \in Objs : /\ heap'[i].data = heap[i].data
                       /\ heap'[i].map = heap[i].map
                       /\ heap'[i].cls = heap[i].cls
    /\ \A i \in 1..Len(heap'), j \in 1..Len(heap') : i # j => heap'[i].map # heap'[j].map
    /\ (last'.op \in Transformations /\ last'.err = "none") => last'.val.map = 0
    /\ last'.op = "values" => \A t \in DOMAIN last'.vals : last'.vals[t].map = 0
    /\ last'.op = "items" => \A t \in DOMAIN last'.vals : last'.vals[t][2].map = 0

\* C11: no step of a Value operation (construction from Values, &, /,
\* slicing, to, containment, values(), items(), hashing, encoding) changes
\* the key set, a payload or the dict of a Value the program holds; a Value
\* the program stores comes after those it held, no two held Values are
\* bound to one dict, and the Value a transformation returns (construction,
\* &, /, slicing, the wrappers of values() and items()) is bound to a dict
\* created by that call.
C11_OperandsUntouched == [][C11_Step]_vars

\* A difference that removes nothing from a non-empty Value has returned,
\* while the program holds two Values, one of them hashed.
C11_Witness ==
    /\ last.op = "truediv" /\ last.err = "none"
    /\ Keys(heap[last.self]) # {}
    /\ Keys(last.val) = Keys(heap[last.self])
    /\ Len(heap) = 2
    /\ \E i \in Objs : heap[i].hash # NoHash

\* ------------------------------------------------------------------------
\* Same Type Set and pairwise-equal payloads.
SameValue(v, w) ==
    /\ Keys(v) = Keys(w)
    /\ \A k \in Keys(v) : PyEq(v.data[k], w.data[k])

\* v has entries, and its identifiers are natively representable types,
\* generic aliases of them, or types registered with a serializer and its
\* deserializer.
Representable(v) ==
    /\ Keys(v) # {}
    /\ \A k \in Keys(v) :
        \/ k \in Builtins
        \/ IsGenericAlias(k)
        \/ (IsClass(k) /\ HasSerializer(ndjson.registry, k))

\* C17: for any Value v whose identifiers are natively representable
\* types, generic aliases of them or registered types, to_json(v) succeeds
\* and from_json of the record succeeds and equals v. The claim is stated
\* here for the Values with entries: from_json refuses a record without
\* entries on purpose (test_empty_conjunction_types).
C17_RoundTrip ==
    /\ (last.op = "to_json" /\ Representable(last.val)) => last.err = "none"
    /\ (last.op = "from_json" /\ Representable(last.val)) =>
            (last.err = "none" /\ SameValue(last.out, last.val))

\* ------------------------------------------------------------------------
\* v is keyed by minted identities only, each minted with a serializer and
\* its deserializer or with neither and then holding a payload JSON takes.
MintedKeyed(v) ==
    /\ Keys(v) # {}
    /\ \A k \in Keys(v) :
        /\ k \in DOMAIN minted.constructors
        /\ (k \in DOMAIN ndjson.serializers) =
               (GetMintName(minted, k) \in DOMAIN ndjson.deserializers)
        /\ (k \notin DOMAIN ndjson.serializers => JsonDumpsOk(v.data[k]))

\* C18: a Value keyed by minted identities is encoded with each identity
\* written as its registered name, and the record decodes to a Value keyed
\* by the same identities whose to(M) returns the original payload.
C18_MintedRoundTrip ==
    /\ (last.op = "to_json" /\ MintedKeyed(last.val)) =>
            /\ last.err = "none"
            /\ {last.rec.types[i].type : i \in 1..Len(last.rec.types)} =
                   {GetMintName(minted, k) : k \in Keys(last.val)}
    /\ (last.op = "from_json" /\ MintedKeyed(last.val)) =>
            /\ last.err = "none"
            /\ Keys(last.out) = Keys(last.val)
            /\ \A k \in Keys(last.val) :
                   ConjunctionTo(last.out, k) = [err |-> "none", ret |-> last.val.data[k]]

\* ------------------------------------------------------------------------
\* The serializer registered against an identifier: with mint() for a
\* minted identity, in the registry for a class.
RegisteredSerializer(t) ==
    IF t \in DOMAIN ndjson.serializers THEN ndjson.serializers[t]
    ELSE IF t # None /\ HasSerializer(ndjson.registry, t) THEN SerializerOf(ndjson.registry, t)
    ELSE None

\* The first registered class, in registration order, that p is an instance of.
InstanceSerializer(p) ==
    LET s == ndjson.registry.serializers
        inst == {i \in 1..Len(s) : PyIsInstance(p, s[i].typ)}
    IN IF inst = {} THEN None ELSE s[CHOOSE i \in inst : \A j \in inst : i <= j].ser

\* What the claimed order yields for payload p stored under k: exact
\* identifier, generic origin, pass-through, else nothing.
ClaimedData(k, p) ==
    IF RegisteredSerializer(k) # None
    THEN [ok |-> TRUE, val |-> Wrapped(RegisteredSerializer(k), p)]
    ELSE IF RegisteredSerializer(GetOrigin(k)) # None
    THEN [ok |-> TRUE, val |-> Wrapped(RegisteredSerializer(GetOrigin(k)), p)]
    ELSE IF JsonDumpsOk(p) THEN [ok |-> TRUE, val |-> p]
    ELSE [ok |-> FALSE, val |-> Null]

\* The same with the serializer of a registered class of the payload tried
\* before pass-through.
OrderedData(k, p) ==
    IF RegisteredSerializer(k) # None
    THEN [ok |-> TRUE, val |-> Wrapped(RegisteredSerializer(k), p)]
    ELSE IF RegisteredSerializer(GetOrigin(k)) # None
    THEN [ok |-> TRUE, val |-> Wrapped(RegisteredSerializer(GetOrigin(k)), p)]
    ELSE IF InstanceSerializer(p) # None
    THEN [ok |-> TRUE, val |-> Wrapped(InstanceSerializer(p), p)]
    ELSE IF JsonDumpsOk(p) THEN [ok |-> TRUE, val |-> p]
    ELSE [ok |-> FALSE, val |-> Null]

\* The record of to_json holds, entry by entry, what pick(k, p) yields, and
\* there is a TypeError and no record when pick yields nothing for an entry.
EncodedAs(pick(_, _)) ==
    LET v == last.val
    IN IF \E k \in Keys(v) : ~pick(k, v.data[k]).ok
       THEN last.err = "TypeError" /\ last.rec = NoRecord
       ELSE /\ last.err = "none"
            /\ Len(last.rec.types) = Len(last.order)
            /\ \A i \in 1..Len(last.order) :
                 /\ last.rec.types[i].key \in DOMAIN last.rec.data
                 /\ last.rec.data[last.rec.types[i].key] =
                        pick(last.order[i], v.data[last.order[i]]).val

ResolvedType(r) ==
    IF r \in DOMAIN minted.names THEN minted.names[r]
    ELSE IF r \in Builtins \cup DOMAIN ndjson.registry.safe_globals
    THEN IF r \in DOMAIN ndjson.registry.safe_globals
         THEN ndjson.registry.safe_globals[r] ELSE r
    ELSE IF r = "list[int]" THEN r
    ELSE None

\* The deserializer registered for an identifier: with mint() under the
\* identity's name, else in the registry under the class's name.
RegisteredDeserializer(t) ==
    IF t \in DOMAIN minted.constructors
    THEN IF GetMintName(minted, t) \in DOMAIN ndjson.deserializers
         THEN ndjson.deserializers[GetMintName(minted, t)]
         ELSE IF GetMintName(minted, t) \in DOMAIN ndjson.registry.deserializers
         THEN ndjson.registry.deserializers[GetMintName(minted, t)]
         ELSE None
    ELSE IF t \in DOMAIN ndjson.registry.deserializers
    THEN ndjson.registry.deserializers[t]
    ELSE None

\* The class direct construction goes through: the class itself, the origin
\* of a generic alias, the origin type's class for a minted identity.
OriginClass(t) ==
    IF t \in DOMAIN minted.constructors THEN BaseConstructor(minted.constructors[t])
    ELSE IF IsGenericAlias(t) THEN GetOrigin(t)
    ELSE t

\* What the claimed order yields for the data d of an entry of identifier t.
ClaimedPayload(t, d) ==
    IF RegisteredDeserializer(t) # None
    THEN ApplyDeserializer(RegisteredDeserializer(t), d)
    ELSE IF GetOrigin(t) # None /\ RegisteredDeserializer(GetOrigin(t)) # None
    THEN ApplyDeserializer(RegisteredDeserializer(GetOrigin(t)), d)
    ELSE CallClass(OriginClass(t), d)

\* The same, except that construction is for classes and generic aliases
\* and keeps null, and a minted identity without a deserializer keeps the
\* data as the record holds it.
KeptPayload(t, d) ==
    IF RegisteredDeserializer(t) # None
    THEN ApplyDeserializer(RegisteredDeserializer(t), d)
    ELSE IF GetOrigin(t) # None /\ RegisteredDeserializer(GetOrigin(t)) # None
    THEN ApplyDeserializer(RegisteredDeserializer(GetOrigin(t)), d)
    ELSE IF t \in DOMAIN minted.constructors \/ IsNull(d) THEN [err |-> "none", val |-> d]
    ELSE CallClass(OriginClass(t), d)

SameData(a, b) == a.ty = b.ty /\ a.v = b.v

\* from_json on a record with entries, each naming a payload it holds: a
\* type representation that resolves to nothing gives ValueError and no
\* Value; otherwise each entry is decoded as pick(t, d) says, a failing
\* entry fails the call, and a later entry of the same identifier wins.
DecodedAs(pick(_, _)) ==
    LET rec == last.rec
        idx == 1..Len(rec.types)
        typ(i) == ResolvedType(rec.types[i].type)
        got(i) == pick(typ(i), rec.data[rec.types[i].key])
    IN (idx # {} /\ \A i \in idx : rec.types[i].key \in DOMAIN rec.data) =>
        IF \E i \in idx : typ(i) = None
        THEN /\ last.err \in {"ValueError"} \cup {got(i).err : i \in {j \in idx : typ(j) # None}}
             /\ last.err # "none"
             /\ last.out = New(Base)
        ELSE IF \E i \in idx : got(i).err # "none"
        THEN /\ last.err \in {got(i).err : i \in idx} \ {"none"}
             /\ last.out = New(Base)
        ELSE /\ last.err = "none"
             /\ Keys(last.out) = {typ(i) : i \in idx}
             /\ \A i \in idx :
                    (\A j \in idx : typ(j) = typ(i) => j <= i) =>
                        SameData(last.out.data[typ(i)], got(i).val)

TypeReprs == {"int", "list", "list[int]", "int[int]", "Point", "app.Point", "Path",
              "pathlib.Path", "pathlib", "1+1", "pathlib.os.getcwd()", "N1", "Nope"}

\* _deserialize_type(type_repr, registry._safe_globals)
DeserializeTypeOp ==
    /\ Idle
    /\ \E type_repr \in TypeReprs :
        LET r == DeserializeType(minted, ndjson.registry, type_repr)
        IN last' = [NoLast EXCEPT !.op = "deserialize_type", !.key = type_repr,
                                  !.err = r.err, !.fn = r.typ, !.ran = r.ran]
    /\ UNCHANGED <<heap, held, registries>>

\* The identifiers a Value can be keyed by: builtin classes, the generic
\* alias and the minted identities.
KeyTypes == Builtins \cup {"list[int]"} \cup DOMAIN minted.constructors

\* _deserialize_type(_serialize_type(typ), registry._safe_globals)
TypeRoundTripOp ==
    /\ Idle
    /\ \E typ \in KeyTypes :
        LET type_repr == SerializeType(minted, typ)
            r == DeserializeType(minted, ndjson.registry, type_repr)
        IN last' = [NoLast EXCEPT !.op = "type_round_trip", !.typ = typ, !.key = type_repr,
                                  !.err = r.err, !.fn = r.typ, !.ran = r.ran]
    /\ UNCHANGED <<heap, held, registries>>

NextTypes == RegisterOp \/ CodecMintOp \/ DeserializeTypeOp \/ TypeRoundTripOp \/ Discard
SpecTypes == Init /\ [][NextTypes]_vars

\* The identifiers the restricted namespace can give: its members and the
\* parametrization of list.
Whitelisted ==
    {SafeNamespace(ndjson.registry)[n] : n \in DOMAIN SafeNamespace(ndjson.registry)}
        \cup {"list[int]"}

\* C21: decoding a type representation returns the minted identity
\* registered under that string, or an identifier built from the restricted
\* namespace and its parametrizations, or fails; it yields no other object
\* and calls nothing.
C21_WhitelistOnly ==
    last.op = "deserialize_type" =>
        /\ last.ran = {}
        /\ \/ last.err = "ValueError" /\ last.fn = None
           \/ /\ last.err = "none"
              /\ \/ last.key \in DOMAIN minted.names /\ last.fn = minted.names[last.key]
                 \/ last.fn \in Whitelisted

\* C28: whatever was minted, decoding the representation of a builtin
\* class, a generic alias or a minted identity gives that identifier back.
C28_TypeRoundTrip ==
    last.op = "type_round_trip" => (last.err = "none" /\ last.fn = last.typ)

\* ------------------------------------------------------------------------
\* C24: a subscript whose expression normalizes to the empty Type Set (the
\* wildcard, or the open descriptor itself) returns the open descriptor,
\* whose Type Set is empty, whichever descriptor it is applied to.
C24_EmptyGivesOpen ==
    (/\ last.op = "dgetitem"
     /\ ~NormalizeItem(last.expr).err
     /\ NormalizeItem(last.expr).types = {}) =>
        (last.err = "none" /\ last.dok /\ last.dval = Base /\ last.dval.types = {})

\* ------------------------------------------------------------------------
\* C27: a Value made by calling a descriptor D other than the open one,
\* for any arguments the constructor accepts, has the Type Set of D, so
\* isinstance of it and D holds.
C27_ConstructedHasShape ==
    (last.op = "init" /\ last.err = "none" /\ last.cls.types # {}) =>
        /\ Keys(last.val) = last.cls.types
        /\ IsInstance(ConjArg(last.val), last.cls)

\* ------------------------------------------------------------------------
\* Conjunction.__rand__(self, other): other & self for an other that is no
\* Value; it calls Conjunction.__and__(self, other).
ConjunctionRAnd(self, other) == ConjunctionAnd(self, other)

\* p & heap[i] for a plain payload p
RAndOp ==
    /\ Idle
    /\ \E i \in Objs, p \in PlainInputs :
        /\ last' = [NoLast EXCEPT !.op = "rand", !.self = i, !.tok = PlainTok(p),
                                  !.val = ConjunctionRAnd(heap[i], PlainArg(p))]
        /\ UNCHANGED <<heap, held, registries>>

NextRAnd == Construct \/ Keep \/ Discard \/ RAndOp
SpecRAnd == Init /\ [][NextRAnd]_vars

\* C26: for a payload x that is no Value and a Value V, x & V equals
\* Conjunction(x) & V: its keys are the class of x and the keys of V, and
\* under the class of x it holds V's payload when V has one.
C26_ReflectedAnd ==
    last.op = "rand" =>
        LET x == last.tok.p
            V == heap[last.self]
        IN /\ SameValue(last.val, ConjunctionAnd(Single(x), ConjArg(V)))
           /\ Keys(last.val) = {TypeOf(x)} \cup Keys(V)
           /\ TypeOf(x) \in Keys(V) => PyEq(last.val.data[TypeOf(x)], V.data[TypeOf(x)])

\* ------------------------------------------------------------------------
\* Normalization on its own: the expressions a program can hand to
\* _normalize_union are the classes and the generic alias, a minted
\* constructor, the wildcard, a descriptor, a Value it holds, an object
\* that is no type, and unions of two of them.
ValueLeaf(S) == Leaf("value", "", S)
MintedLeaf(f) == Leaf("minted", f, {})

NormLeaves ==
    {IdLeaf(t) : t \in {"int", "str", "list[int]"}}
    \cup {EllipsisObj, EllipsisType, OtherObj, DescLeaf({}), DescLeaf({"int", "str"})}
    \cup {ValueLeaf(Keys(heap[i])) : i \in Objs}
    \cup {MintedLeaf(f) : f \in DOMAIN minted.constructors}

\* Unions hold classes, aliases, the wildcard and descriptors: a function or
\* a Value has no | with a class.
NormExprs ==
    NormLeaves \cup {UnionOf(<<q[1], q[2]>>) :
                        q \in {r \in NormLeaves \X NormLeaves :
                                  /\ r[1] # r[2]
                                  /\ r[1].kind \in {"id", "desc", "ellipsis_type"}
                                  /\ r[2].kind \in {"id", "desc", "ellipsis_type"}}}

\* _normalize_union(tp)
NormalizeOp ==
    /\ Idle
    /\ \E tp \in NormExprs :
        LET r == _normalize_union(tp)
        IN last' = [NoLast EXCEPT !.op = "normalize", !.expr = tp,
                                  !.err = IF r.err THEN "TypeError" ELSE "none",
                                  !.dok = ~r.err, !.dval = Desc(r.types)]
    /\ UNCHANGED <<heap, held, registries>>

NextNorm == ConstructPlain \/ Keep \/ Discard \/ MintListOp \/ NormalizeOp
SpecNorm == Init /\ [][NextNorm]_vars

\* The Type Set the claim gives an expression.
RECURSIVE ClaimedTypes(_)
ClaimedTypes(tp) ==
    CASE tp.kind \in {"id", "minted"} -> Ok({tp.t})
      [] tp.kind \in {"desc", "value"} -> Ok(tp.types)
      [] tp.kind \in {"ellipsis", "ellipsis_type"} -> Ok({})
      [] tp.kind = "union" ->
            LET idx == 1..Len(tp.args)
            IN IF \E i \in idx : ClaimedTypes(tp.args[i]).err THEN Fail
               ELSE Ok(UNION {ClaimedTypes(tp.args[i]).types : i \in idx})
      [] OTHER -> Fail

\* C25: normalization maps a single identifier (class, parametrized type
\* or minted identity) to its singleton, a composite expression to the
\* union of its members' normalizations, a descriptor or a Value to its
\* Type Set and the wildcard to the empty set; any other leaf raises
\* TypeError.
C25_Normalization ==
    last.op = "normalize" =>
        IF ClaimedTypes(last.expr).err THEN last.err = "TypeError"
        ELSE last.err = "none" /\ last.dval.types = ClaimedTypes(last.expr).types

\* ------------------------------------------------------------------------
\* Descriptors as objects: ConjunctionMeta._cache is a WeakValueDictionary
\* from Type Set to class, so an entry lasts as long as its class object.

\* cls._types of the class object with identity id
TypesOf(c, id) == IF id = 0 THEN {} ELSE c.alive[id]

\* The identity a class object created now gets.
FreshId(c) == CHOOSE n \in 1..(Cardinality(DOMAIN c.alive) + 1) : n \notin DOMAIN c.alive

Cached(c, id) == [err |-> "none", id |-> id, cache |-> c]

\* A tail that makes a new class every time.
AlwaysCreate(c, S) ==
    LET new_cls == FreshId(c)
    IN Cached([c EXCEPT !.map = Put(@, S, new_cls), !.alive = Put(@, new_cls, S)], new_cls)

\* The tail of __getitem__ and of __and__: the class the cache holds for the
\* Type Set, else a new class, which is cached.
LookupOrCreate(c, S) ==
    IF S \in DOMAIN c.map THEN Cached(c, c.map[S])
    ELSE LET new_cls == FreshId(c)
         IN Cached([c EXCEPT !.map = Put(@, S, new_cls), !.alive = Put(@, new_cls, S)],
                   new_cls)

\* ConjunctionMeta.__getitem__(cls, item) with the cache
MetaGetItemCached(c, cls, item) ==
    LET n == NormalizeItem(item)
    IN IF n.err THEN [err |-> "TypeError", id |-> 0, cache |-> c]
       ELSE IF n.types = {} THEN Cached(c, cls)
       ELSE LookupOrCreate(c, n.types)

\* ConjunctionMeta.__and__(cls, other) with the cache
MetaAndCached(c, cls, other) ==
    IF other.kind \in {"desc", "id", "ellipsis_type"}
    THEN LookupOrCreate(c, TypesOf(c, cls) \cup MetaAnd(Desc(TypesOf(c, cls)), other).d.types)
    ELSE [err |-> "TypeError", id |-> 0, cache |-> c]

\* The descriptors the program can name: Conjunction and its variables.
Receivers == {0} \cup {cache.refs[i] : i \in 1..Len(cache.refs)}

\* Type expressions over the classes and the descriptors in reach.
CacheLeaves == {IdLeaf(t) : t \in {"int", "str"}} \cup {DescLeaf(TypesOf(cache, d)) : d \in Receivers}
CacheExprs ==
    CacheLeaves \cup {EllipsisObj, OtherObj}
    \cup {UnionOf(<<q[1], q[2]>>) : q \in {r \in CacheLeaves \X CacheLeaves : r[1] # r[2]}}
    \cup {TupleOf(<<IdLeaf("str"), IdLeaf("int")>>)}

\* D[item]
CacheGetItemOp ==
    /\ Idle
    /\ \E cls \in Receivers, item \in CacheExprs :
        LET r == MetaGetItemCached(cache, cls, item)
        IN /\ Cardinality(DOMAIN r.cache.alive) <= MaxAddr
           /\ cache' = r.cache
           /\ last' = [NoLast EXCEPT !.op = "cgetitem", !.self = cls, !.expr = item,
                                     !.err = r.err, !.dok = (r.err = "none"), !.addr = r.id,
                                     !.dval = Desc(TypesOf(r.cache, r.id))]
    /\ UNCHANGED <<heap, held, minted, ndjson, objects, file, threads>>

\* D & other
CacheAndOp ==
    /\ Idle
    /\ \E cls \in Receivers, other \in CacheLeaves \cup {EllipsisObj} :
        LET r == MetaAndCached(cache, cls, other)
        IN /\ Cardinality(DOMAIN r.cache.alive) <= MaxAddr
           /\ cache' = r.cache
           /\ last' = [NoLast EXCEPT !.op = "cand", !.self = cls, !.expr = other,
                                     !.err = r.err, !.dok = (r.err = "none"), !.addr = r.id,
                                     !.dval = Desc(TypesOf(r.cache, r.id))]
    /\ UNCHANGED <<heap, held, minted, ndjson, objects, file, threads>>

\* E = <the descriptor just returned>
KeepRefOp ==
    /\ last.op \in {"cgetitem", "cand"}
    /\ last.dok
    /\ Len(cache.refs) < MaxDescs
    /\ cache' = [cache EXCEPT !.refs = Append(@, last.addr)]
    /\ last' = NoLast
    /\ UNCHANGED <<heap, held, minted, ndjson, objects, file, threads>>

\* del E
DropRefOp ==
    /\ Idle
    /\ \E i \in 1..Len(cache.refs) :
        cache' = [cache EXCEPT !.refs = SubSeq(@, 1, i - 1) \o SubSeq(@, i + 1, Len(@))]
    /\ UNCHANGED <<heap, held, last, minted, ndjson, objects, file, threads>>

\* The class objects nothing refers to: no variable and no pending result.
Unreferenced ==
    DOMAIN cache.alive \ (Receivers \cup (IF last.dok THEN {last.addr} ELSE {}))

\* The garbage collector frees a class nothing refers to; its cache entry
\* goes with it.
CollectOp ==
    /\ \E id \in Unreferenced :
        cache' = [cache EXCEPT
                    !.alive = [x \in DOMAIN @ \ {id} |-> @[x]],
                    !.map = [S \in {T \in DOMAIN @ : @[T] # id} |-> @[S]]]
    /\ UNCHANGED <<heap, held, last, minted, ndjson, objects, file, threads>>

NextCache == CacheGetItemOp \/ CacheAndOp \/ KeepRefOp \/ DropRefOp \/ CollectOp \/ Discard
SpecCache == Init /\ [][NextCache]_vars

MaxCallers == 2

\* A caller's frame: its arguments, its position in mint, the function it
\* created (minted_constructor), what it returned or raised, and whether its
\* test of the name fell between another caller's test of the same name
\* and that caller's registration of it.
Frame(name, typ) ==
    [pc |-> "check", name |-> name, typ |-> typ, made |-> None, fn |-> None,
     err |-> "none", raced |-> FALSE]

Callers == 1..Len(threads)

\* The functions created so far, registered or still local to a caller.
Created == (DOMAIN minted.constructors) \cup ({threads[i].made : i \in Callers} \ {None})

\* A test of the name that never finds it.
NameNeverTaken(m, name) == FALSE

\* name in _minted_names
NameTaken(m, name) == name \in DOMAIN m.names

\* Callers of the name that have tested it and not yet registered it.
InFlight(name) ==
    {j \in Callers : threads[j].name = name /\ threads[j].pc \in {"create", "ctor", "name"}}

\* A thread calls mint(name, typ).
CallMintOp ==
    /\ Len(threads) < MaxCallers
    /\ \E name \in {"N1", "N2"}, typ \in MintTypes :
        threads' = Append(threads, Frame(name, typ))
    /\ UNCHANGED <<heap, held, last, minted, ndjson, objects, cache, file>>

\* if name in _minted_names:
CheckNameStep ==
    /\ \E i \in Callers :
        /\ threads[i].pc = "check"
        /\ threads' = [threads EXCEPT
                ![i].pc = IF NameTaken(minted, threads[i].name) THEN "existing" ELSE "create",
                ![i].raced = InFlight(threads[i].name) # {}]
    /\ UNCHANGED <<heap, held, last, minted, ndjson, objects, cache, file>>

\* The branch for a taken name: the existing constructor for an equal
\* origin type, else ValueError.
ExistingStep ==
    /\ \E i \in Callers :
        /\ threads[i].pc = "existing"
        /\ LET existing_constructor == minted.names[threads[i].name]
               existing_type == minted.constructors[existing_constructor]
           IN threads' = [threads EXCEPT
                ![i].pc = "done",
                ![i].fn = IF existing_type = threads[i].typ THEN existing_constructor ELSE None,
                ![i].err = IF existing_type = threads[i].typ THEN "none" ELSE "ValueError"]
    /\ UNCHANGED <<heap, held, last, minted, ndjson, objects, cache, file>>

\* def minted_constructor(...): a new function object
CreateStep ==
    /\ \E i \in Callers :
        /\ threads[i].pc = "create"
        /\ threads' = [threads EXCEPT ![i].pc = "ctor",
                                      ![i].made = FnName(Cardinality(Created) + 1)]
    /\ UNCHANGED <<heap, held, last, minted, ndjson, objects, cache, file>>

\* _minted_constructors[minted_constructor] = typ
StoreConstructorStep ==
    /\ \E i \in Callers :
        /\ threads[i].pc = "ctor"
        /\ minted' = [minted EXCEPT !.constructors = Put(@, threads[i].made, threads[i].typ)]
        /\ threads' = [threads EXCEPT ![i].pc = "name"]
    /\ UNCHANGED <<heap, held, last, ndjson, objects, cache, file>>

\* _minted_names[name] = minted_constructor
StoreNameStep ==
    /\ \E i \in Callers :
        /\ threads[i].pc = "name"
        /\ minted' = [minted EXCEPT !.names = Put(@, threads[i].name, threads[i].made)]
        /\ threads' = [threads EXCEPT ![i].pc = "ret"]
    /\ UNCHANGED <<heap, held, last, ndjson, objects, cache, file>>

\* return minted_constructor
ReturnStep ==
    /\ \E i \in Callers :
        /\ threads[i].pc = "ret"
        /\ threads' = [threads EXCEPT ![i].pc = "done", ![i].fn = threads[i].made]
    /\ UNCHANGED <<heap, held, last, minted, ndjson, objects, cache, file>>

NextThreads ==
    CallMintOp \/ CheckNameStep \/ ExistingStep \/ CreateStep
    \/ StoreConstructorStep \/ StoreNameStep \/ ReturnStep
SpecThreads == Init /\ [][NextThreads]_vars

CallersOf(name) == {i \in Callers : threads[i].name = name}
Finished(name) == \A i \in CallersOf(name) : threads[i].pc = "done"

\* What the registry holds for the name once its callers have returned:
\* the name is bound, the callers that passed the origin type it is bound
\* for all received the bound identity, and every identity a caller of the
\* name recorded in _minted_constructors is the one the name is bound to.
OneIdentity(name) ==
    /\ name \in DOMAIN minted.names
    /\ \A i \in CallersOf(name) :
           threads[i].typ = minted.constructors[minted.names[name]] =>
               /\ threads[i].err = "none"
               /\ threads[i].fn = minted.names[name]
    /\ \A i \in CallersOf(name) :
           threads[i].made \in DOMAIN minted.constructors =>
               threads[i].made = minted.names[name]

\* C30 as stated: in every interleaving of callers minting the same new
\* name the registry ends with one identity for the name, which callers
\* of the same origin type all receive, and no recorded identity is
\* unreachable from a name.
C30_AnyInterleaving ==
    \A name \in {"N1", "N2"} :
        (CallersOf(name) # {} /\ Finished(name)) => OneIdentity(name)

\* C30: the same, for the interleavings in which no caller tests the name
\* between another caller's test of it and that caller's registration of
\* it.
C30_NoOverlappingTest ==
    \A name \in {"N1", "N2"} :
        (/\ CallersOf(name) # {}
         /\ Finished(name)
         /\ \A i \in CallersOf(name) : ~threads[i].raced) => OneIdentity(name)

\* Two callers minted the same name with the same origin type, neither
\* tested the name inside the other's window, and the second received the
\* identity the first created.
C30_Witness ==
    /\ Len(threads) = 2
    /\ threads[1].name = threads[2].name /\ threads[1].typ = threads[2].typ
    /\ threads[1].pc = "done" /\ threads[2].pc = "done"
    /\ ~threads[1].raced /\ ~threads[2].raced
    /\ threads[1].made # None /\ threads[2].made = None
    /\ threads[2].fn = threads[1].made

\* ------------------------------------------------------------------------
\* NDJSONFile: one JSON record per line. file.exists and file.lines are the
\* file on disk; file.log and file.clean are bookkeeping for the claims:
\* whether every call so far was given serializable Values, and while that
\* is so what the calls were given.

\* Lines the file can grow to, and Values a write_all batch can hold.
MaxLines == 2

\* json.dumps(data) + '\n', and a line of whitespace only
Line(rec) == [blank |-> FALSE, rec |-> rec]
BlankLine == [blank |-> TRUE, rec |-> NoRecord]

\* append(conj): the record is computed before the file is opened
FileAppend(m, nd, f, conj, order) ==
    LET data == ToJson(m, nd, conj, order)
    IN IF data.err # "none" THEN [err |-> data.err, file |-> f]
       ELSE [err |-> "none",
             file |-> [f EXCEPT !.exists = TRUE, !.lines = Append(@, Line(data.rec))]]

\* The loop of write_all over the batch, from its i-th Value on.
RECURSIVE WriteFrom(_, _, _, _, _)
WriteFrom(m, nd, f, conjunctions, i) ==
    IF i > Len(conjunctions) THEN [err |-> "none", file |-> f]
    ELSE LET data == ToJson(m, nd, conjunctions[i].val, conjunctions[i].order)
         IN IF data.err # "none" THEN [err |-> data.err, file |-> f]
            ELSE WriteFrom(m, nd, [f EXCEPT !.lines = Append(@, Line(data.rec))],
                           conjunctions, i + 1)

\* write_all(conjunctions): open(path, 'w') empties the file, then the
\* records are computed and written one by one
WriteAll(m, nd, f, conjunctions) ==
    WriteFrom(m, nd, [f EXCEPT !.exists = TRUE, !.lines = <<>>], conjunctions, 1)

\* The lines with line.strip() true.
Records(f) == SelectSeq(f.lines, LAMBDA line : ~line.blank)

\* The loop of read over the records, from the i-th on: what was yielded
\* before the first record from_json refuses.
RECURSIVE ReadFrom(_, _, _, _, _)
ReadFrom(m, nd, recs, i, got) ==
    IF i > Len(recs) THEN [err |-> "none", got |-> got]
    ELSE LET r == FromJson(m, nd, recs[i].rec)
         IN IF r.err # "none" THEN [err |-> r.err, got |-> got]
            ELSE ReadFrom(m, nd, recs, i + 1, Append(got, r.obj))

\* list(read())
Read(m, nd, f) ==
    IF ~f.exists THEN [err |-> "none", got |-> <<>>]
    ELSE ReadFrom(m, nd, Records(f), 1, <<>>)

\* list(read_raw())
ReadRaw(f) ==
    IF ~f.exists THEN <<>> ELSE [i \in 1..Len(Records(f)) |-> Records(f)[i].rec]

\* count_lines()
CountLines(f) == IF ~f.exists THEN 0 ELSE Len(Records(f))

\* The Values a program writes: built-in payloads and an instance of the
\* class Point, each with the order of its entries.
OneEntry(k, v) == [val |-> Built([x \in {k} |-> v]), order |-> <<k>>]
FileConjs == {OneEntry("int", Int1), OneEntry("bool", BoolFalse), OneEntry("Point", Pt1)}
Batches == UNION {[1..n -> FileConjs] : n \in 0..MaxLines}

\* What a call was given, with the record to_json makes of it at the call.
Logged(c) == [val |-> c.val, rec |-> ToJson(minted, ndjson, c.val, c.order).rec]
Serializable(c) == ToJson(minted, ndjson, c.val, c.order).err = "none"

\* f.append(conj)
AppendOp ==
    /\ Idle
    /\ Len(file.lines) < MaxLines
    /\ \E c \in FileConjs :
        LET r == FileAppend(minted, ndjson, file, c.val, c.order)
        IN /\ file' = [r.file EXCEPT
                         !.log = IF (file.clean /\ Serializable(c)) THEN Append(@, Logged(c)) ELSE <<>>,
                         !.clean = (file.clean /\ Serializable(c))]
           /\ last' = [NoLast EXCEPT !.op = "append", !.val = c.val, !.err = r.err]
    /\ UNCHANGED <<heap, held, minted, ndjson, objects, cache, threads>>

\* f.write_all(conjunctions)
WriteAllOp ==
    /\ Idle
    /\ \E batch \in Batches :
        LET r == WriteAll(minted, ndjson, file, batch)
            ok == file.clean /\ \A i \in 1..Len(batch) : Serializable(batch[i])
        IN /\ file' = [r.file EXCEPT
                         !.log = IF ok THEN [i \in 1..Len(batch) |-> Logged(batch[i])]
                                 ELSE <<>>,
                         !.clean = ok]
           /\ last' = [NoLast EXCEPT !.op = "write_all", !.count = Len(batch), !.err = r.err]
    /\ UNCHANGED <<heap, held, minted, ndjson, objects, cache, threads>>

\* list(f.read())
ReadOp ==
    /\ Idle
    /\ LET r == Read(minted, ndjson, file)
       IN last' = [NoLast EXCEPT !.op = "read", !.err = r.err, !.got = r.got]
    /\ UNCHANGED <<heap, held, registries>>

\* list(f.read_raw())
ReadRawOp ==
    /\ Idle
    /\ last' = [NoLast EXCEPT !.op = "read_raw", !.got = ReadRaw(file)]
    /\ UNCHANGED <<heap, held, registries>>

\* f.count_lines()
CountLinesOp ==
    /\ Idle
    /\ last' = [NoLast EXCEPT !.op = "count_lines", !.count = CountLines(file)]
    /\ UNCHANGED <<heap, held, registries>>

\* An empty line gets into the file, as test_empty_lines_skipped writes one.
BlankLineOp ==
    /\ Idle
    /\ file.exists
    /\ Len(file.lines) < MaxLines
    /\ file' = [file EXCEPT !.lines = Append(@, BlankLine)]
    /\ UNCHANGED <<heap, held, last, minted, ndjson, objects, cache, threads>>

NextFile ==
    RegisterOp \/ AppendOp \/ WriteAllOp \/ ReadOp \/ ReadRawOp \/ CountLinesOp
    \/ BlankLineOp \/ Discard
SpecFile == Init /\ [][NextFile]_vars

\* C22: for a file changed only by append and write_all with serializable
\* Values, read() yields in order Values equal to the last write_all batch
\* followed by the Values appended since; the records of earlier calls stay
\* as they were written; count_lines() is the number of records read() and
\* read_raw() yield; blank lines are skipped, and a nonexistent file gives
\* an empty sequence and a count of 0.
C22_FileContents ==
    /\ (last.op = "read" /\ file.clean) =>
           /\ last.err = "none"
           /\ Len(last.got) = Len(file.log)
           /\ \A i \in 1..Len(file.log) : SameValue(last.got[i], file.log[i].val)
    /\ (last.op = "read_raw" /\ file.clean) =>
           /\ Len(last.got) = Len(file.log)
           /\ \A i \in 1..Len(file.log) : last.got[i] = file.log[i].rec
    /\ (last.op = "count_lines" /\ file.clean) => last.count = Len(file.log)
    /\ (last.op \in {"read", "read_raw", "count_lines"} /\ ~file.exists) =>
           (last.err = "none" /\ last.got = <<>> /\ last.count = 0)

\* C29: an append or a write_all that fails because a Value is not
\* serializable leaves the records of the file as they were before the
\* call.
C29_FailedWriteKeepsRecords ==
    [][(last'.op \in {"append", "write_all"} /\ last.op = "idle" /\ last'.err # "none")
          => ReadRaw(file') = ReadRaw(file)]_vars

====
